---- MODULE Spec2Model ----
(***************************************************************************)
(* Model of src/index.py: the webhook entry points /distribuir and         *)
(* /atualizarreservadecambio, the allocation routine distribute_values,    *)
(* the record store (Monday.com boards) they talk to, and the in-memory    *)
(* ledger operation_state.                                                 *)
(*                                                                         *)
(* One action is one request to the record store together with the local   *)
(* computation that follows it up to the next request.  The store answers   *)
(* every request with one of Answers.                                      *)
(***************************************************************************)
EXTENDS Integers, Sequences, FiniteSets, TLC

VARIABLES
  parent,           \* parent board: item id -> columns of the parent record
  subitems,         \* parent item id -> its subitems, in the order the store returns them
  nextId,           \* next identifier the store hands out for a duplicated item
  operation_state,  \* the ledger: a dict keyed by item id
  calls,            \* worker -> the local variables of the request it is handling
  ncalls,           \* number of webhook deliveries so far (also the clock)
  stamped,          \* history: <<subitem, call>> for every acknowledged saved-amount write
  faults            \* number of requests the store has not acknowledged so far

vars == <<parent, subitems, nextId, operation_state, calls, ncalls, stamped, faults>>

-----------------------------------------------------------------------------
(* Bounds of the model *)

MaxChildren == 1
MaxDed == 2
MaxLimit == 3
MaxCalls == 2       \* webhook deliveries in one behaviour
MaxFaults == 1

-----------------------------------------------------------------------------
(* Values *)

ParentIds == {1, 2}
BoardOrder == <<1, 2>>
Workers == {"w1", "w2"}
SeqWorkers == {"w1"}

\* What the store can answer to a request:
\*   "ack"  - the request was carried out and the response echoes the id
\*   "none" - transport error, HTTP error, non-dict JSON or GraphQL "errors":
\*            make_monday_api_request returns None; nothing was carried out
\*   "null" - a dict without "errors" whose payload field is null; nothing was
\*            carried out
Answers == {"ack", "none", "null"}

Sentinel == "Parte Terrestre Internacional"
OtherLabel == "Parte Aerea"

SaveValues == {0, 5}

NoLimit == 0 - 1

Parte1 == " - Parte 1"
Parte2 == " - Parte 2"

StatusEmpty == [kind |-> "empty", index |-> 0, text |-> <<>>]
StatusIndex(n) == [kind |-> "index", index |-> n, text |-> <<>>]
StatusLabel(t) == [kind |-> "label", index |-> 0, text |-> t]
StatusText(t) == [kind |-> "text", index |-> 0, text |-> t]
\* a JSON object whose label is null or a number, an object with neither key,
\* and JSON values that are not objects
StatusLabelNull == [kind |-> "label_null", index |-> 0, text |-> <<>>]
StatusObject == [kind |-> "object", index |-> 0, text |-> <<>>]
StatusNumber == [kind |-> "number", index |-> 0, text |-> <<>>]
StatusList == [kind |-> "list", index |-> 0, text |-> <<>>]

CurrencyInputs == {StatusEmpty, StatusIndex(1), StatusText(<<"N", "/", "A">>)}

SubId(k) == 10 + k

\* raw currency statuses for the classification: words in both cases, alone and
\* inside a longer text
Cores ==
  { <<"D", "Ó", "L", "A", "R">>, <<"d", "ó", "l", "a", "r">>,
    <<"D", "O", "L", "L", "A", "R">>, <<"D", "o", "l", "l", "a", "r">>, <<"$">>,
    <<"E", "U", "R", "O">>, <<"e", "u", "r", "o">>, <<"E", "u", "r", "o">>, <<"€">>,
    <<"N", "/", "A">>, <<>> }

Prefixes == {<<>>, <<"U", "S">>}

Suffixes == {<<>>, <<"S">>}

CurrencyTexts == {p \o w \o x : p \in Prefixes, w \in Cores, x \in Suffixes}

StatusIndices == (0 - 1)..6

CurrencyDomain ==
  {StatusEmpty}
    \cup {StatusIndex(n) : n \in StatusIndices}
    \cup {StatusLabel(t) : t \in CurrencyTexts}
    \cup {StatusText(t) : t \in CurrencyTexts \ {<<>>}}
    \cup {StatusLabelNull, StatusObject, StatusNumber, StatusList}

-----------------------------------------------------------------------------
(* Pure helpers *)

RECURSIVE SumSeq(_)
SumSeq(s) == IF s = <<>> THEN 0 ELSE Head(s) + SumSeq(Tail(s))

\* str.upper() on the characters the model uses
UpperChar(ch) ==
  CASE ch = "d" -> "D" [] ch = "o" -> "O" [] ch = "l" -> "L" [] ch = "a" -> "A"
    [] ch = "r" -> "R" [] ch = "e" -> "E" [] ch = "u" -> "U" [] ch = "n" -> "N"
    [] ch = "ó" -> "Ó"
    [] OTHER -> ch

Upper(t) == [k \in 1..Len(t) |-> UpperChar(t[k])]

\* needle in text
Contains(t, needle) ==
  \E k \in 1..(Len(t) - Len(needle) + 1) : SubSeq(t, k, k + Len(needle) - 1) = needle

IsDollarText(t) ==
  \/ Contains(Upper(t), <<"D", "Ó", "L", "A", "R">>)
  \/ Contains(Upper(t), <<"D", "O", "L", "L", "A", "R">>)
  \/ Contains(Upper(t), <<"$">>)

IsEuroText(t) ==
  \/ Contains(Upper(t), <<"E", "U", "R", "O">>)
  \/ Contains(Upper(t), <<"€">>)

\* lines 331-367: valid_currency
ValidCurrency(cur) ==
  CASE cur.kind = "empty" -> FALSE
    [] cur.kind = "index" -> cur.index \in {0, 1, 2, 3, 4}
    [] cur.kind = "label" -> IsDollarText(cur.text) \/ IsEuroText(cur.text)
    [] cur.kind = "text" -> IsDollarText(cur.text) \/ IsEuroText(cur.text)
    [] OTHER -> FALSE

\* variant of IsDollar: only index 1 is a dollar index
IsDollarIndexOne(cur) ==
  CASE cur.kind = "index" -> cur.index = 1
    [] cur.kind = "label" -> IsDollarText(cur.text)
    [] cur.kind = "text" -> IsDollarText(cur.text)
    [] OTHER -> FALSE

\* lines 331-367: is_dollar
IsDollar(cur) ==
  CASE cur.kind = "index" -> cur.index \in {1, 2}
    [] cur.kind = "label" -> IsDollarText(cur.text)
    [] cur.kind = "text" -> IsDollarText(cur.text)
    [] OTHER -> FALSE

\* Python's  a and b  with a a bool and b a list: b when a holds, else False
PyAnd(a, b) ==
  IF a THEN [isList |-> TRUE, bool |-> FALSE, list |-> b]
       ELSE [isList |-> FALSE, bool |-> FALSE, list |-> <<>>]

\* Python's truth value of a bool or a list
Truthy(v) == IF v.isList THEN v.list # <<>> ELSE v.bool

\* variant of ReservaSaved: the comparison admits a remainder of 0
ReservaSavedAtZero(remaining_value, processed_subitems) ==
  PyAnd(remaining_value >= 0, processed_subitems)

\* lines 672, 679
ReservaSaved(remaining_value, processed_subitems) ==
  PyAnd(remaining_value > 0, processed_subitems)

\* variant of Eligible: the saved amount is not looked at
EligibleAnySaved(it) == it.status = Sentinel

\* variant of Eligible: the status label is not looked at
EligibleAnyLabel(it) == it.saved = 0

\* variant of Eligible: every fetched subitem passes
EligibleUnfiltered(it) == TRUE

\* line 417: the eligibility test on one fetched subitem
Eligible(it) == it.status = Sentinel /\ it.saved = 0

\* variant of EligibleSubitems: the eligible subitems come out last first
EligibleSubitemsReversed(fetched) ==
  LET sel == SelectSeq(fetched, Eligible)
  IN [k \in 1..Len(sel) |-> sel[Len(sel) + 1 - k]]

\* lines 386-423: the eligible subitems, in the order fetched
EligibleSubitems(fetched) == SelectSeq(fetched, Eligible)

\* variant of Part2Limit: the subtraction is forgotten
Part2LimitWhole(original, remaining_value) == original

\* line 496
Part2Limit(original, remaining_value) == original - remaining_value

\* variant of NeedsSplit: an item that exceeds the budget is consumed whole
NeedsSplitNever(ded, remaining_value) == FALSE

\* variant of NeedsSplit: a deduction equal to the budget is split too
NeedsSplitAtEqual(ded, remaining_value) == ded >= remaining_value

\* line 466: the deduction does not fit the remaining budget
NeedsSplit(ded, remaining_value) == ded > remaining_value

\* variant of SplitLimitReached: the limit is never looked at
SplitLimitIgnored(max_splits, splits_created) == FALSE

\* line 468: the split limit is reached
SplitLimitReached(max_splits, splits_created) ==
  max_splits # NoLimit /\ splits_created >= max_splits

-----------------------------------------------------------------------------
(* Store operations *)

\* every subitem of the board, parent by parent
AllSubitems(subs) ==
  LET RECURSIVE cat(_)
      cat(k) ==
        IF k > Len(BoardOrder) THEN <<>>
        ELSE (IF BoardOrder[k] \in DOMAIN subs THEN subs[BoardOrder[k]] ELSE <<>>)
               \o cat(k + 1)
  IN cat(1)

ItemIds(subs) == {AllSubitems(subs)[k].id : k \in 1..Len(AllSubitems(subs))}

ItemById(subs, id) ==
  LET all == AllSubitems(subs)
  IN all[CHOOSE k \in 1..Len(all) : all[k].id = id]

\* change_column_value on a subitem: numeric_mktm79z5 (deduction)
SetDed(subs, id, v) ==
  [p \in DOMAIN subs |->
     [k \in 1..Len(subs[p]) |->
        IF subs[p][k].id = id THEN [subs[p][k] EXCEPT !.ded = v] ELSE subs[p][k]]]

\* change_column_value on a subitem: numeric_mks6p0bv (saved amount)
SetSaved(subs, id, v) ==
  [p \in DOMAIN subs |->
     [k \in 1..Len(subs[p]) |->
        IF subs[p][k].id = id THEN [subs[p][k] EXCEPT !.saved = v] ELSE subs[p][k]]]

\* change_simple_column_value on the name column
SetName(subs, id, nm) ==
  [p \in DOMAIN subs |->
     [k \in 1..Len(subs[p]) |->
        IF subs[p][k].id = id THEN [subs[p][k] EXCEPT !.name = nm] ELSE subs[p][k]]]

\* duplicate_item: a copy with a new id, placed right after the original
Duplicate(subs, id, newId) ==
  [p \in DOMAIN subs |->
     IF \E k \in 1..Len(subs[p]) : subs[p][k].id = id
       THEN LET k == CHOOSE j \in 1..Len(subs[p]) : subs[p][j].id = id
            IN SubSeq(subs[p], 1, k) \o <<[subs[p][k] EXCEPT !.id = newId]>>
                 \o SubSeq(subs[p], k + 1, Len(subs[p]))
       ELSE subs[p]]

\* variant of SubitemsByName: the name of the item is not compared
SubitemsAnyName(par, subs, item_name) == AllSubitems(subs)

\* lines 116-122: the subitems of every item of the group whose name matches
SubitemsByName(par, subs, item_name) ==
  LET RECURSIVE cat(_)
      cat(k) ==
        IF k > Len(BoardOrder) THEN <<>>
        ELSE (IF BoardOrder[k] \in DOMAIN par /\ par[BoardOrder[k]].name = item_name
                THEN subs[BoardOrder[k]] ELSE <<>>)
               \o cat(k + 1)
  IN cat(1)

\* lines 620-627: the first item of the group with this name, 0 when there is none
FindParentByName(par, item_name) ==
  LET hits == {k \in 1..Len(BoardOrder) :
                 BoardOrder[k] \in DOMAIN par /\ par[BoardOrder[k]].name = item_name}
  IN IF hits = {} THEN 0
     ELSE BoardOrder[CHOOSE k \in hits : \A j \in hits : k <= j]

\* variant of FindParentWithReserva: the reserve of the item is not looked at
FindParentAnyReserva(par, item_name) == FindParentByName(par, item_name)

\* lines 1413-1451: the first item with this name whose reserve is > 0, 0 when none
FindParentWithReserva(par, item_name) ==
  LET hits == {k \in 1..Len(BoardOrder) :
                 /\ BoardOrder[k] \in DOMAIN par
                 /\ par[BoardOrder[k]].name = item_name
                 /\ par[BoardOrder[k]].reserva > 0}
  IN IF hits = {} THEN 0
     ELSE BoardOrder[CHOOSE k \in hits : \A j \in hits : k <= j]

-----------------------------------------------------------------------------
(* Initial states *)

ItemKinds ==
  {[status |-> Sentinel, saved |-> 0, ded |-> d] : d \in 0..MaxDed}
    \cup {[status |-> OtherLabel, saved |-> 0, ded |-> 1],
          [status |-> Sentinel, saved |-> 5, ded |-> 1]}

ChildKindSeqs == UNION {[1..n -> ItemKinds] : n \in 0..MaxChildren}

MkItems(ks) ==
  [k \in 1..Len(ks) |->
     [id |-> SubId(k), name |-> <<"S">>, status |-> ks[k].status,
      saved |-> ks[k].saved, ded |-> ks[k].ded]]

EligibleOf(deds) == [k \in 1..Len(deds) |-> [status |-> Sentinel, saved |-> 0, ded |-> deds[k]]]

\* the worked scenarios of the design: limit and eligible deductions
Scenarios ==
  { [limit |-> 100, deds |-> <<40, 30, 50>>],
    [limit |-> 50, deds |-> <<80>>],
    [limit |-> 20, deds |-> <<10>>] }

\* lists of two eligible items: both exceed the limit, or the first fits and
\* the limit cuts into the second, or the first has no deduction, or the first
\* meets the limit exactly
Pairs ==
  { [limit |-> 1, deds |-> <<2, 2>>],
    [limit |-> 2, deds |-> <<1, 2>>],
    [limit |-> 3, deds |-> <<2, 2>>],
    [limit |-> 1, deds |-> <<0, 1>>],
    [limit |-> 1, deds |-> <<1, 1>>] }

\* children of the three kinds side by side: a wrong label, an eligible item
\* that fits, an item already saved, an eligible item that must be split
\* under the limit 2
MixedKinds ==
  << [status |-> OtherLabel, saved |-> 0, ded |-> 1],
     [status |-> Sentinel, saved |-> 0, ded |-> 1],
     [status |-> Sentinel, saved |-> 5, ded |-> 1],
     [status |-> Sentinel, saved |-> 0, ded |-> 2] >>

\* a parent either carries a fresh limit or a reserve left by an earlier run
Budgets ==
  {[limit |-> l, reserva |-> 0] : l \in 0..MaxLimit}
    \cup {[limit |-> 0, reserva |-> r] : r \in 1..MaxLimit}

SecondParent ==
  [name |-> "B", currency |-> StatusIndex(1), limit |-> 1, value_to_save |-> 5,
   reserva |-> 0, cotacao |-> 0]

SecondSubitems ==
  <<[id |-> SubId(0), name |-> <<"S">>, status |-> Sentinel, saved |-> 0, ded |-> 1]>>

IdleCall ==
  [ pc |-> "idle", entry |-> "none", callno |-> 0, item_id |-> 0, item_name |-> "",
    limit_value |-> 0, numeric_value_to_save |-> 0, currency_dropdown |-> StatusEmpty,
    valid_currency |-> FALSE, is_dollar |-> FALSE,
    max_splits |-> NoLimit, fetch_done |-> FALSE, fetched |-> <<>>, eligible_subitems |-> <<>>, i |-> 0,
    remaining_value |-> 0, processed_subitems |-> <<>>, splits_created |-> 0,
    original_numeric |-> 0, part2_id |-> 0, part2_limit |-> 0,
    parent_item_to_update |-> 0, reserva_response |-> "ack", reserva_value |-> 0, cotacao_value |-> 0,
    parent_item_with_reserva |-> 0,
    result |-> "none", status_code |-> 0,
    out_processed |-> <<>>, out_remaining |-> 0, out_reserva_saved |-> PyAnd(FALSE, <<>>),
    reserva_cleared_flag |-> FALSE,
    split_budget |-> 0, budgets |-> <<>>, log |-> <<>> ]

InitStore(ps, b, v, cur, kids) ==
  /\ parent = [p \in ps |->
                 IF p = 1
                   THEN [name |-> "A", currency |-> cur, limit |-> b.limit,
                         value_to_save |-> v, reserva |-> b.reserva,
                         cotacao |-> IF b.reserva > 0 THEN v ELSE 0]
                   ELSE SecondParent]
  /\ subitems = [p \in ps |-> IF p = 1 THEN MkItems(kids) ELSE SecondSubitems]
  /\ nextId = SubId(Len(kids) + 1)

Init ==
  /\ \/ \E b \in Budgets, v \in SaveValues, cur \in CurrencyInputs, kids \in ChildKindSeqs :
          InitStore({1}, b, v, cur, kids)
     \/ \E s \in Scenarios \cup Pairs :
          InitStore({1}, [limit |-> s.limit, reserva |-> 0], 5, StatusIndex(1), EligibleOf(s.deds))
     \/ InitStore({1}, [limit |-> 2, reserva |-> 0], 5, StatusIndex(1), MixedKinds)
  /\ operation_state = <<>>
  /\ calls = [w \in Workers |-> IdleCall]
  /\ ncalls = 0
  /\ stamped = {}
  /\ faults = 0

-----------------------------------------------------------------------------
(* Local computation of distribute_values and of the entry points *)

\* history: the write requests the call has issued, and whether each was acknowledged
Logged(st, op, item, value, a) ==
  [st EXCEPT !.log = Append(@, [op |-> op, item |-> item, value |-> value,
                                acked |-> (a = "ack")])]

\* a return of distribute_values that is not the full outcome
ReturnWith(st, result, status_code) ==
  [st EXCEPT !.pc = "return", !.result = result, !.status_code = status_code]

\* variant of Raised: the exception leaves the handler uncaught
RaisedUncaught(st) == [st EXCEPT !.pc = "done", !.result = "uncaught", !.status_code = 0]

\* lines 682-686: an exception inside distribute_values
Raised(st) == ReturnWith(st, "exception", 500)

\* variant of AfterLoop: the reserve writer runs after every loop
AfterLoopAlwaysWrites(st) == [st EXCEPT !.pc = "reserva_query"]

\* lines 597-598: after the loop, the reserve writer runs or the call finishes
AfterLoop(st) ==
  IF st.remaining_value > 0 /\ st.processed_subitems # <<>>
    THEN [st EXCEPT !.pc = "reserva_query"]
    ELSE [st EXCEPT !.pc = "finish"]

RECURSIVE LoopFrom(_)

\* variant of LoopFrom: an item without a deduction ends the loop
LoopFromEndsAtZero(st) ==
  IF st.i > Len(st.eligible_subitems) THEN AfterLoop(st)
  ELSE IF st.remaining_value <= 0 THEN AfterLoop(st)
  ELSE LET ded == st.eligible_subitems[st.i].ded
       IN IF ded > 0
            THEN IF NeedsSplit(ded, st.remaining_value)
                   THEN IF SplitLimitReached(st.max_splits, st.splits_created)
                          THEN AfterLoop(st)
                          ELSE [st EXCEPT !.pc = "split1", !.original_numeric = ded,
                                          !.split_budget = st.remaining_value]
                   ELSE [st EXCEPT !.pc = "stamp"]
            ELSE AfterLoop(st)

\* lines 444-470, 594-595: from eligible item i on, up to the next store request
LoopFrom(st) ==
  IF st.i > Len(st.eligible_subitems) THEN AfterLoop(st)
  ELSE IF st.remaining_value <= 0 THEN AfterLoop(st)
  ELSE LET ded == st.eligible_subitems[st.i].ded
       IN IF ded > 0
            THEN IF NeedsSplit(ded, st.remaining_value)
                   THEN IF SplitLimitReached(st.max_splits, st.splits_created)
                          THEN AfterLoop(st)
                          ELSE [st EXCEPT !.pc = "split1", !.original_numeric = ded,
                                          !.split_budget = st.remaining_value]
                   ELSE [st EXCEPT !.pc = "stamp"]
            ELSE LoopFrom([st EXCEPT !.i = @ + 1])

\* variant of StampAcked: the value to save is subtracted instead of the deduction
StampAckedWrongAmount(st) ==
  LET it == st.eligible_subitems[st.i]
      n == [st EXCEPT
              !.budgets = Append(@, st.remaining_value),
              !.remaining_value = @ - st.numeric_value_to_save,
              !.processed_subitems =
                 Append(@, [id |-> it.id, name |-> it.name,
                            assigned_value |-> st.numeric_value_to_save,
                            deducted_value |-> it.ded])]
  IN IF n.remaining_value <= 0 THEN AfterLoop(n) ELSE LoopFrom([n EXCEPT !.i = @ + 1])

\* variant of StampAcked: the item is reported but the budget is not charged
StampAckedUncharged(st) ==
  LET it == st.eligible_subitems[st.i]
      n == [st EXCEPT
              !.budgets = Append(@, st.remaining_value),
              !.processed_subitems =
                 Append(@, [id |-> it.id, name |-> it.name,
                            assigned_value |-> st.numeric_value_to_save,
                            deducted_value |-> it.ded])]
  IN LoopFrom([n EXCEPT !.i = @ + 1])

\* variant of StampAcked: the new entry is put at the head of processed
StampAckedPrepends(st) ==
  LET it == st.eligible_subitems[st.i]
      n == [st EXCEPT
              !.budgets = Append(@, st.remaining_value),
              !.remaining_value = @ - it.ded,
              !.processed_subitems =
                 <<[id |-> it.id, name |-> it.name,
                    assigned_value |-> st.numeric_value_to_save,
                    deducted_value |-> it.ded]>> \o @]
  IN IF n.remaining_value <= 0 THEN AfterLoop(n) ELSE LoopFrom([n EXCEPT !.i = @ + 1])

\* variant of StampAcked: the next item is stamped without a look at the budget left
StampAckedNextBlind(st) ==
  LET it == st.eligible_subitems[st.i]
      n == [st EXCEPT
              !.budgets = Append(@, st.remaining_value),
              !.remaining_value = @ - it.ded,
              !.processed_subitems =
                 Append(@, [id |-> it.id, name |-> it.name,
                            assigned_value |-> st.numeric_value_to_save,
                            deducted_value |-> it.ded])]
  IN IF st.i < Len(st.eligible_subitems)
       THEN [n EXCEPT !.i = @ + 1, !.pc = "stamp"]
       ELSE AfterLoop(n)

\* lines 575-590: the stamp write was acknowledged
StampAcked(st) ==
  LET it == st.eligible_subitems[st.i]
      n == [st EXCEPT
              !.budgets = Append(@, st.remaining_value),
              !.remaining_value = @ - it.ded,
              !.processed_subitems =
                 Append(@, [id |-> it.id, name |-> it.name,
                            assigned_value |-> st.numeric_value_to_save,
                            deducted_value |-> it.ded])]
  IN IF n.remaining_value <= 0 THEN AfterLoop(n) ELSE LoopFrom([n EXCEPT !.i = @ + 1])

\* variant of StampFailed: the same item is tried again
StampFailedRetries(st) == [st EXCEPT !.pc = "stamp"]

\* lines 591-593: the stamp write was not acknowledged
StampFailed(st) == LoopFrom([st EXCEPT !.i = @ + 1])

\* variant of SplitFailed: the budget is given up
SplitFailedZeroes(st) == AfterLoop([st EXCEPT !.remaining_value = 0])

\* variant of SplitFailed: the loop goes on with the next item
SplitFailedContinues(st) == LoopFrom([st EXCEPT !.i = @ + 1])

\* lines 551-568: a split step was not acknowledged
SplitFailed(st) == AfterLoop(st)

\* variant of SplitDone: the budget is kept and the loop goes on
SplitDoneGoesOn(st) ==
  LET it == st.eligible_subitems[st.i]
  IN LoopFrom(
       [st EXCEPT
          !.processed_subitems =
             @ \o << [id |-> it.id, name |-> Append(it.name, Parte1),
                      assigned_value |-> st.numeric_value_to_save,
                      deducted_value |-> 0],
                     [id |-> st.part2_id, name |-> Append(it.name, Parte2),
                      assigned_value |-> st.numeric_value_to_save,
                      deducted_value |-> st.part2_limit] >>,
          !.splits_created = @ + 1,
          !.i = @ + 1])

\* lines 528-550: the sixth split step was acknowledged
SplitDone(st) ==
  LET it == st.eligible_subitems[st.i]
      n == [st EXCEPT !.remaining_value = 0]
  IN AfterLoop(
       [n EXCEPT
          !.processed_subitems =
             @ \o << [id |-> it.id, name |-> Append(it.name, Parte1),
                      assigned_value |-> st.numeric_value_to_save,
                      deducted_value |-> n.remaining_value],
                     [id |-> st.part2_id, name |-> Append(it.name, Parte2),
                      assigned_value |-> st.numeric_value_to_save,
                      deducted_value |-> st.part2_limit] >>,
          !.splits_created = @ + 1])

\* lines 373-442: what follows the fetch of the subitems
AfterFetch(st, fetched) ==
  IF fetched = <<>> THEN ReturnWith([st EXCEPT !.fetch_done = TRUE], "no_subitems", 200)
  ELSE IF EligibleSubitems(fetched) = <<>>
         THEN ReturnWith([st EXCEPT !.fetch_done = TRUE, !.fetched = fetched],
                         "no_eligible", 200)
  ELSE LoopFrom([st EXCEPT !.fetch_done = TRUE,
                           !.fetched = fetched,
                           !.eligible_subitems = EligibleSubitems(fetched),
                           !.i = 1,
                           !.remaining_value = st.limit_value,
                           !.processed_subitems = <<>>,
                           !.splits_created = 0])

\* lines 317-371: entry of distribute_values up to the first store request
DistributeValues(st, item_data, max_splits) ==
  LET n == [st EXCEPT !.limit_value = item_data.limit,
                      !.numeric_value_to_save = item_data.value_to_save,
                      !.currency_dropdown = item_data.currency,
                      !.valid_currency = ValidCurrency(item_data.currency),
                      !.is_dollar = IsDollar(item_data.currency),
                      !.max_splits = max_splits]
  IN IF item_data.currency.kind = "label_null"
       THEN Raised([n EXCEPT !.valid_currency = FALSE, !.is_dollar = FALSE])
     ELSE IF ~n.valid_currency
       THEN ReturnWith(n, "invalid_currency", 400)
       ELSE [n EXCEPT !.pc = "get_subitems"]

\* result.get("remaining_value", 0): only the full outcome carries the key
RemainingOf(st) == IF st.result = "distributed" THEN st.out_remaining ELSE 0

\* variant of ShouldClearReserva: the reserve is never cleared
ShouldClearNever(st) == FALSE

\* lines 1526-1529
ShouldClearReserva(st) == ~(RemainingOf(st) > 0)

\* lines 1524-1595 and 1671-1673: what the entry point does with the returned result
AfterReturn(st) ==
  IF st.entry = "atualizar"
    THEN IF ShouldClearReserva(st)
           THEN [st EXCEPT !.pc = "clear_reserva"]
           ELSE [st EXCEPT !.pc = "done", !.reserva_cleared_flag = TRUE]
    ELSE [st EXCEPT !.pc = "done"]

\* variant of LedgerPut: the ledger keeps the newest entry only
LedgerPutNewestOnly(ledger, key, entry) == [k \in {key} |-> entry]

\* lines 668-673: operation_state[item_id] = {...}
LedgerPut(ledger, key, entry) ==
  [k \in DOMAIN ledger \cup {key} |-> IF k = key THEN entry ELSE ledger[k]]

\* lines 667-680: the ledger entry and the full outcome
Outcome(st) ==
  [st EXCEPT !.pc = "return", !.result = "distributed", !.status_code = 200,
             !.out_processed = st.processed_subitems,
             !.out_remaining = st.remaining_value,
             !.out_reserva_saved = ReservaSaved(st.remaining_value, st.processed_subitems)]

LedgerEntry(st) ==
  [timestamp |-> st.callno,
   processed_subitems |-> st.processed_subitems,
   remaining_value |-> st.remaining_value,
   reserva_saved |-> ReservaSaved(st.remaining_value, st.processed_subitems)]

\* the worker's new local state, and the ledger write when the call finished
Settle(c, n) ==
  LET m == IF n.pc = "finish" THEN Outcome(n) ELSE n
      final == IF m.pc = "return" THEN AfterReturn(m) ELSE m
  IN /\ calls' = [calls EXCEPT ![c] = final]
     /\ operation_state' =
          IF n.pc = "finish" THEN LedgerPut(operation_state, n.item_id, LedgerEntry(n))
          ELSE operation_state

Free(c) == calls[c].pc \in {"idle", "done"}

-----------------------------------------------------------------------------
(* Actions *)

\* the store answers a request
Answered(a) ==
  /\ a = "ack" \/ faults < MaxFaults
  /\ faults' = IF a = "ack" THEN faults ELSE faults + 1

\* get_item_data: the parent's columns, or the defaults when the query fails
ItemData(p, a) ==
  IF a = "ack"
    THEN [currency |-> parent[p].currency, limit |-> parent[p].limit,
          value_to_save |-> parent[p].value_to_save]
    ELSE [currency |-> StatusEmpty, limit |-> 0, value_to_save |-> 0]

\* POST /distribuir for parent p
Distribuir(c, p, a) ==
  /\ Free(c)
  /\ ncalls < MaxCalls
  /\ Answered(a)
  /\ ncalls' = ncalls + 1
  /\ LET item_data == ItemData(p, a)
         st == [IdleCall EXCEPT !.entry = "distribuir", !.callno = ncalls + 1,
                                !.item_id = p,
                                !.item_name = parent[p].name]
     IN Settle(c,
          IF item_data.currency.kind = "empty"
            THEN [st EXCEPT !.pc = "done", !.result = "skip_status", !.status_code = 200]
          ELSE IF item_data.limit <= 0
            THEN [st EXCEPT !.pc = "done", !.result = "skip_limit", !.status_code = 200]
          ELSE DistributeValues(st, item_data, NoLimit))
  /\ UNCHANGED <<parent, subitems, nextId, stamped>>

\* POST /atualizarreservadecambio for parent p: the query for the item's name
Atualizar(c, p, a) ==
  /\ Free(c)
  /\ ncalls < MaxCalls
  /\ Answered(a)
  /\ ncalls' = ncalls + 1
  /\ LET st == [IdleCall EXCEPT !.entry = "atualizar", !.callno = ncalls + 1,
                                !.item_id = p]
     IN Settle(c,
          IF a = "ack"
            THEN [st EXCEPT !.pc = "parent_query", !.item_name = parent[p].name]
            ELSE [st EXCEPT !.pc = "done", !.result = "item_query_failed",
                            !.status_code = 500])
  /\ UNCHANGED <<parent, subitems, nextId, stamped>>

\* /atualizarreservadecambio: the query for the reserve of the same-named parent
ParentQuery(c, a) ==
  /\ calls[c].pc = "parent_query"
  /\ Answered(a)
  /\ LET st == calls[c]
         found == IF a = "ack" THEN FindParentWithReserva(parent, st.item_name) ELSE 0
     IN Settle(c,
          IF a = "null"
            THEN [st EXCEPT !.pc = "done", !.result = "internal_error", !.status_code = 500]
          ELSE IF found = 0
            THEN [st EXCEPT !.pc = "done", !.result = "no_reserva", !.status_code = 200]
          ELSE IF parent[found].currency.kind = "empty"
            THEN [st EXCEPT !.pc = "done", !.result = "skip_status", !.status_code = 200,
                            !.parent_item_with_reserva = found]
          ELSE DistributeValues(
                 [st EXCEPT !.reserva_value = parent[found].reserva,
                            !.cotacao_value = parent[found].cotacao,
                            !.parent_item_with_reserva = found],
                 [currency |-> parent[found].currency, limit |-> parent[found].reserva,
                  value_to_save |-> parent[found].cotacao],
                 1))
  /\ UNCHANGED <<parent, subitems, nextId, ncalls, stamped>>

\* get_subitems_by_group_and_name, the eligibility filter and the start of the loop
GetSubitems(c, a) ==
  /\ calls[c].pc = "get_subitems"
  /\ Answered(a)
  /\ LET st == calls[c]
         fetched == IF a = "ack" THEN SubitemsByName(parent, subitems, st.item_name) ELSE <<>>
     IN Settle(c, AfterFetch(st, fetched))
  /\ UNCHANGED <<parent, subitems, nextId, ncalls, stamped>>

\* lines 573-593: stamp an item that fits the budget
Stamp(c, a) ==
  /\ calls[c].pc = "stamp"
  /\ Answered(a)
  /\ LET st == calls[c]
         it == st.eligible_subitems[st.i]
         lg == Logged(st, "set_saved", it.id, st.numeric_value_to_save, a)
     IN /\ subitems' = IF a = "ack" THEN SetSaved(subitems, it.id, st.numeric_value_to_save)
                       ELSE subitems
        /\ stamped' = IF a = "ack" THEN stamped \cup {<<it.id, st.callno>>} ELSE stamped
        /\ Settle(c, CASE a = "ack" -> StampAcked(lg)
                       [] a = "none" -> StampFailed(lg)
                       [] OTHER -> Raised(lg))
  /\ UNCHANGED <<parent, nextId, ncalls>>

\* a split step that is not acknowledged
SplitStepFails(c, lg, a) ==
  Settle(c, IF a = "none" THEN SplitFailed(lg) ELSE Raised(lg))

\* variant of Split1: after step 1 the duplicate is made before the original is stamped
Split1ThenDup(c, a) ==
  /\ calls[c].pc = "split1"
  /\ Answered(a)
  /\ LET st == calls[c]
         it == st.eligible_subitems[st.i]
         lg == Logged(st, "set_ded", it.id, st.remaining_value, a)
     IN IF a = "ack"
          THEN /\ subitems' = SetDed(subitems, it.id, st.remaining_value)
               /\ Settle(c, [lg EXCEPT !.pc = "dup"])
          ELSE /\ subitems' = subitems
               /\ SplitStepFails(c, lg, a)
  /\ UNCHANGED <<parent, nextId, ncalls, stamped>>

\* lines 479-482: split step 1, the original's deduction becomes the remaining budget
Split1(c, a) ==
  /\ calls[c].pc = "split1"
  /\ Answered(a)
  /\ LET st == calls[c]
         it == st.eligible_subitems[st.i]
         lg == Logged(st, "set_ded", it.id, st.remaining_value, a)
     IN IF a = "ack"
          THEN /\ subitems' = SetDed(subitems, it.id, st.remaining_value)
               /\ Settle(c, [lg EXCEPT !.pc = "split2"])
          ELSE /\ subitems' = subitems
               /\ SplitStepFails(c, lg, a)
  /\ UNCHANGED <<parent, nextId, ncalls, stamped>>

\* lines 485-488: split step 2, the original is stamped
Split2(c, a) ==
  /\ calls[c].pc = "split2"
  /\ Answered(a)
  /\ LET st == calls[c]
         it == st.eligible_subitems[st.i]
         lg == Logged(st, "set_saved", it.id, st.numeric_value_to_save, a)
     IN IF a = "ack"
          THEN /\ subitems' = SetSaved(subitems, it.id, st.numeric_value_to_save)
               /\ stamped' = stamped \cup {<<it.id, st.callno>>}
               /\ Settle(c, [lg EXCEPT !.pc = "dup"])
          ELSE /\ UNCHANGED <<subitems, stamped>>
               /\ SplitStepFails(c, lg, a)
  /\ UNCHANGED <<parent, nextId, ncalls>>

\* lines 491-494, 238-258: split step 3, duplicate_item on the original
Dup(c, a) ==
  /\ calls[c].pc = "dup"
  /\ Answered(a)
  /\ LET st == calls[c]
         it == st.eligible_subitems[st.i]
         lg == Logged(st, "duplicate", it.id, 0, a)
     IN IF a = "ack"
          THEN /\ subitems' = Duplicate(subitems, it.id, nextId)
               /\ nextId' = nextId + 1
               /\ Settle(c, [lg EXCEPT !.pc = "dup_rename", !.part2_id = nextId])
          ELSE /\ UNCHANGED <<subitems, nextId>>
               /\ SplitStepFails(c, lg, a)
  /\ UNCHANGED <<parent, ncalls, stamped>>

\* lines 261-278: the duplicate is renamed; the response is not looked at
DupRename(c, a) ==
  /\ calls[c].pc = "dup_rename"
  /\ Answered(a)
  /\ LET st == calls[c]
         it == st.eligible_subitems[st.i]
         lg == Logged(st, "rename_parte2", st.part2_id, 0, a)
     IN /\ subitems' = IF a = "ack"
                         THEN SetName(subitems, st.part2_id, Append(it.name, Parte2))
                         ELSE subitems
        /\ Settle(c, [lg EXCEPT !.pc = "split4",
                                !.part2_limit =
                                   Part2Limit(st.original_numeric, st.remaining_value)])
  /\ UNCHANGED <<parent, nextId, ncalls, stamped>>

\* lines 495-499: split step 4, the duplicate's deduction
Split4(c, a) ==
  /\ calls[c].pc = "split4"
  /\ Answered(a)
  /\ LET st == calls[c]
         lg == Logged(st, "set_ded", st.part2_id, st.part2_limit, a)
     IN IF a = "ack"
          THEN /\ subitems' = SetDed(subitems, st.part2_id, st.part2_limit)
               /\ Settle(c, [lg EXCEPT !.pc = "split5"])
          ELSE /\ subitems' = subitems
               /\ SplitStepFails(c, lg, a)
  /\ UNCHANGED <<parent, nextId, ncalls, stamped>>

\* lines 502-505: split step 5, the duplicate is stamped
Split5(c, a) ==
  /\ calls[c].pc = "split5"
  /\ Answered(a)
  /\ LET st == calls[c]
         lg == Logged(st, "set_saved", st.part2_id, st.numeric_value_to_save, a)
     IN IF a = "ack"
          THEN /\ subitems' = SetSaved(subitems, st.part2_id, st.numeric_value_to_save)
               /\ stamped' = stamped \cup {<<st.part2_id, st.callno>>}
               /\ Settle(c, [lg EXCEPT !.pc = "split6"])
          ELSE /\ UNCHANGED <<subitems, stamped>>
               /\ SplitStepFails(c, lg, a)
  /\ UNCHANGED <<parent, nextId, ncalls>>

\* lines 508-553: split step 6, the original is renamed
Split6(c, a) ==
  /\ calls[c].pc = "split6"
  /\ Answered(a)
  /\ LET st == calls[c]
         it == st.eligible_subitems[st.i]
         lg == Logged(st, "rename_parte1", it.id, 0, a)
     IN IF a = "ack"
          THEN /\ subitems' = SetName(subitems, it.id, Append(it.name, Parte1))
               /\ Settle(c, SplitDone(lg))
          ELSE /\ subitems' = subitems
               /\ SplitStepFails(c, lg, a)
  /\ UNCHANGED <<parent, nextId, ncalls, stamped>>

\* lines 599-627: the reserve writer looks the parent up by name
ReservaQuery(c, a) ==
  /\ calls[c].pc = "reserva_query"
  /\ Answered(a)
  /\ LET st == calls[c]
         found == IF a = "ack" THEN FindParentByName(parent, st.item_name) ELSE 0
     IN Settle(c,
          IF a = "null" THEN Raised(st)
          ELSE IF found = 0 THEN [st EXCEPT !.pc = "finish"]
          ELSE [st EXCEPT !.pc = "reserva_write", !.parent_item_to_update = found])
  /\ UNCHANGED <<parent, subitems, nextId, ncalls, stamped>>

\* variant of ReservaWrite: the whole limit is written to the reserve column
ReservaWriteLimit(c, a) ==
  /\ calls[c].pc = "reserva_write"
  /\ Answered(a)
  /\ LET st == calls[c]
         lg == Logged(st, "set_reserva", st.parent_item_to_update, st.limit_value, a)
     IN /\ parent' = IF a = "ack"
                       THEN [parent EXCEPT ![st.parent_item_to_update].reserva =
                                              st.limit_value]
                       ELSE parent
        /\ Settle(c, [lg EXCEPT !.pc = "cotacao_write", !.reserva_response = a])
  /\ UNCHANGED <<subitems, nextId, ncalls, stamped>>

\* lines 639-647: the remainder is written to the parent's reserve column
ReservaWrite(c, a) ==
  /\ calls[c].pc = "reserva_write"
  /\ Answered(a)
  /\ LET st == calls[c]
         lg == Logged(st, "set_reserva", st.parent_item_to_update, st.remaining_value, a)
     IN /\ parent' = IF a = "ack"
                       THEN [parent EXCEPT ![st.parent_item_to_update].reserva =
                                              st.remaining_value]
                       ELSE parent
        /\ Settle(c, [lg EXCEPT !.pc = "cotacao_write", !.reserva_response = a])
  /\ UNCHANGED <<subitems, nextId, ncalls, stamped>>

\* lines 649-665: the value to save is written to the parent's quote column,
\* then both responses are looked at
CotacaoWrite(c, a) ==
  /\ calls[c].pc = "cotacao_write"
  /\ Answered(a)
  /\ LET st == calls[c]
         lg == Logged(st, "set_cotacao", st.parent_item_to_update,
                      st.numeric_value_to_save, a)
         reserva_response == st.reserva_response
     IN /\ parent' = IF a = "ack"
                       THEN [parent EXCEPT ![st.parent_item_to_update].cotacao =
                                              st.numeric_value_to_save]
                       ELSE parent
        /\ Settle(c,
             IF reserva_response = "null" \/ (reserva_response = "ack" /\ a = "null")
               THEN Raised(lg)
               ELSE [lg EXCEPT !.pc = "finish"])
  /\ UNCHANGED <<subitems, nextId, ncalls, stamped>>

\* lines 1545-1553: /atualizarreservadecambio writes 0 to the reserve column
ClearReserva(c, a) ==
  /\ calls[c].pc = "clear_reserva"
  /\ Answered(a)
  /\ LET st == calls[c]
         lg == Logged(st, "clear_reserva", st.parent_item_with_reserva, 0, a)
     IN /\ parent' = IF a = "ack"
                       THEN [parent EXCEPT ![st.parent_item_with_reserva].reserva = 0]
                       ELSE parent
        /\ Settle(c, [lg EXCEPT !.pc = "clear_cotacao"])
  /\ UNCHANGED <<subitems, nextId, ncalls, stamped>>

\* lines 1555-1595: /atualizarreservadecambio writes 0 to the quote column and returns
ClearCotacao(c, a) ==
  /\ calls[c].pc = "clear_cotacao"
  /\ Answered(a)
  /\ LET st == calls[c]
         lg == Logged(st, "clear_cotacao", st.parent_item_with_reserva, 0, a)
     IN /\ parent' = IF a = "ack"
                       THEN [parent EXCEPT ![st.parent_item_with_reserva].cotacao = 0]
                       ELSE parent
        /\ Settle(c, [lg EXCEPT !.pc = "done", !.reserva_cleared_flag = TRUE])
  /\ UNCHANGED <<subitems, nextId, ncalls, stamped>>

Request(c, a) ==
    \/ \E p \in DOMAIN parent : Distribuir(c, p, a)
    \/ \E p \in DOMAIN parent : Atualizar(c, p, a)
    \/ ParentQuery(c, a)
    \/ GetSubitems(c, a)
    \/ Stamp(c, a)
    \/ Split1(c, a)
    \/ Split2(c, a)
    \/ Dup(c, a)
    \/ DupRename(c, a)
    \/ Split4(c, a)
    \/ Split5(c, a)
    \/ Split6(c, a)
    \/ ReservaQuery(c, a)
    \/ ReservaWrite(c, a)
    \/ CotacaoWrite(c, a)
    \/ ClearReserva(c, a)
    \/ ClearCotacao(c, a)

Step(c) == \E a \in Answers : Request(c, a)

Next == \E c \in SeqWorkers : Step(c)

Spec == Init /\ [][Next]_vars

-----------------------------------------------------------------------------
(* Concurrent webhook deliveries: two workers, two parents of different names *)

\* parent 1 carries a fresh limit, parent 2 a reserve left by an earlier run
ConcParent ==
  [p \in ParentIds |->
     IF p = 1
       THEN [name |-> "A", currency |-> StatusIndex(1), limit |-> 2, value_to_save |-> 5,
             reserva |-> 0, cotacao |-> 0]
       ELSE [SecondParent EXCEPT !.limit = 0, !.reserva = 1, !.cotacao = 5]]

ConcSubitems ==
  [p \in ParentIds |-> IF p = 1 THEN MkItems(EligibleOf(<<1, 2>>)) ELSE SecondSubitems]

ConcInit ==
  /\ parent = ConcParent
  /\ subitems = ConcSubitems
  /\ nextId = SubId(3)
  /\ operation_state = <<>>
  /\ calls = [w \in Workers |-> IdleCall]
  /\ ncalls = 0
  /\ stamped = {}
  /\ faults = 0

\* the handlers of the workers run interleaved, one store request at a time
ConcNext == \E c \in Workers : Step(c)

ConcSpec == ConcInit /\ [][ConcNext]_vars

-----------------------------------------------------------------------------
(* The ledger over calls for two parents, and the status view *)

\* lines 693-696: GET /status renders operation_state
Status(c) ==
  /\ Free(c)
  /\ ncalls < MaxCalls
  /\ ncalls' = ncalls + 1
  /\ calls' = [calls EXCEPT ![c] = [IdleCall EXCEPT !.entry = "status", !.pc = "done",
                                                    !.callno = ncalls + 1,
                                                    !.result = "operations",
                                                    !.status_code = 200]]
  /\ UNCHANGED <<parent, subitems, nextId, operation_state, stamped, faults>>

LedgerInit ==
  /\ parent = ConcParent
  /\ subitems = ConcSubitems
  /\ nextId = SubId(3)
  /\ operation_state = <<>>
  /\ calls = [w \in Workers |-> IdleCall]
  /\ ncalls = 0
  /\ stamped = {}
  /\ faults = 0

LedgerNext ==
  \E c \in SeqWorkers :
    \/ Step(c)
    \/ Status(c)

LedgerSpec == LedgerInit /\ [][LedgerNext]_vars

-----------------------------------------------------------------------------
(* distribute_values called on a raw currency status: the classification *)

CurrencyInit ==
  /\ \E cur \in CurrencyDomain :
        InitStore({1}, [limit |-> 1, reserva |-> 0], 5, cur, EligibleOf(<<1>>))
  /\ operation_state = <<>>
  /\ calls = [w \in Workers |-> IdleCall]
  /\ ncalls = 0
  /\ stamped = {}
  /\ faults = 0

\* lines 317-371: distribute_values(item_data) up to its first store request
Classify(c) ==
  /\ calls[c].pc = "idle"
  /\ Settle(c, DistributeValues(
                 [IdleCall EXCEPT !.entry = "distribute_values", !.item_id = 1,
                                  !.item_name = parent[1].name],
                 ItemData(1, "ack"), NoLimit))
  /\ UNCHANGED <<parent, subitems, nextId, ncalls, stamped, faults>>

CurrencyNext == \E c \in SeqWorkers : Classify(c)

CurrencySpec == CurrencyInit /\ [][CurrencyNext]_vars

-----------------------------------------------------------------------------
(* distribute_values called with each value of max_splits *)

\* line 311: max_splits is None (no limit) or a number of splits
SplitLimits == {NoLimit, 0, 1}

DirectInit ==
  /\ \E s \in Scenarios \cup Pairs :
        InitStore({1}, [limit |-> s.limit, reserva |-> 0], 5, StatusIndex(1), EligibleOf(s.deds))
  /\ operation_state = <<>>
  /\ calls = [w \in Workers |-> IdleCall]
  /\ ncalls = 0
  /\ stamped = {}
  /\ faults = 0

\* lines 311-371: distribute_values(item_data, max_splits) up to its first store request
DirectCall(c, max_splits) ==
  /\ Free(c)
  /\ ncalls < MaxCalls
  /\ ncalls' = ncalls + 1
  /\ Settle(c, DistributeValues(
                 [IdleCall EXCEPT !.entry = "distribute_values", !.callno = ncalls + 1,
                                  !.item_id = 1, !.item_name = parent[1].name],
                 ItemData(1, "ack"), max_splits))
  /\ UNCHANGED <<parent, subitems, nextId, stamped, faults>>

\* the store requests of distribute_values
DirectRequest(c, a) ==
    \/ GetSubitems(c, a)
    \/ Stamp(c, a)
    \/ Split1(c, a)
    \/ Split2(c, a)
    \/ Dup(c, a)
    \/ DupRename(c, a)
    \/ Split4(c, a)
    \/ Split5(c, a)
    \/ Split6(c, a)
    \/ ReservaQuery(c, a)
    \/ ReservaWrite(c, a)
    \/ CotacaoWrite(c, a)

DirectNext ==
  \E c \in SeqWorkers :
    \/ \E max_splits \in SplitLimits : DirectCall(c, max_splits)
    \/ \E a \in Answers : DirectRequest(c, a)

DirectSpec == DirectInit /\ [][DirectNext]_vars

\* the two routes on the worked lists of eligible items, where every store
\* request returns, acknowledged or failed
TermSpec == DirectInit /\ [][Next]_vars /\ WF_vars(Next)

-----------------------------------------------------------------------------
(* Properties *)

\* the call returned the full outcome of distribute_values (lines 675-680)
Distributed(st) == st.result = "distributed"

SplitAttempted(st) == \E k \in 1..Len(st.log) : st.log[k].op = "set_ded"

AllAcked(st) == \A k \in 1..Len(st.log) : st.log[k].acked

Deducted(processed) == [k \in 1..Len(processed) |-> processed[k].deducted_value]

Deds(items) == [k \in 1..Len(items) |-> items[k].ded]

Positive(d) == d > 0

\* the positive deductions of the eligible items, in order
PosDeds(st) == SelectSeq(Deds(st.eligible_subitems), Positive)

Prefix(ds, k) == SumSeq(SubSeq(ds, 1, k))

\* how many leading deductions fit the limit together
Whole(ds, limit) ==
  CHOOSE k \in 0..Len(ds) :
    Prefix(ds, k) <= limit /\ (k = Len(ds) \/ Prefix(ds, k + 1) > limit)

\* the deduction the store now holds for a subitem
StoredDed(id) == ItemById(subitems, id).ded

StoredSaved(id) == ItemById(subitems, id).saved

\* the item the call split, and its duplicate
SplitItem(st) == st.eligible_subitems[st.i].id

\* C1: when distribute_values returns its outcome and no split was attempted,
\* remaining_value = limit - sum of deducted_value over processed_subitems, and
\* every processed deduction was <= the budget left when the item was consumed.
C1_ConservationNoSplit ==
  \A c \in Workers :
    LET st == calls[c]
    IN (Distributed(st) /\ ~SplitAttempted(st)) =>
         /\ st.out_remaining = st.limit_value - SumSeq(Deducted(st.out_processed))
         /\ Len(st.budgets) = Len(st.out_processed)
         /\ \A k \in 1..Len(st.out_processed) :
              st.out_processed[k].deducted_value <= st.budgets[k]

\* two items consumed whole, a third one skipped because its write failed
C1_Witness ==
  \E c \in Workers :
    /\ Distributed(calls[c]) /\ ~SplitAttempted(calls[c])
    /\ Len(calls[c].out_processed) = 2
    /\ \E k \in 1..Len(calls[c].log) : ~calls[c].log[k].acked

\* C2: after a split whose steps were all acknowledged, of an item with
\* deduction D > R met with budget R > 0, the store holds the original with
\* deduction R and the duplicate with deduction D - R (together D), both with
\* saved amount valueToSave, and the call's remaining value is 0.
C2_SplitConservation ==
  \A c \in Workers :
    LET st == calls[c]
        D == st.original_numeric
        R == st.split_budget
    IN st.splits_created = 1 =>
         /\ D > R /\ R > 0
         /\ StoredDed(SplitItem(st)) = R
         /\ StoredDed(st.part2_id) = D - R
         /\ StoredDed(SplitItem(st)) + StoredDed(st.part2_id) = D
         /\ StoredSaved(SplitItem(st)) = st.numeric_value_to_save
         /\ StoredSaved(st.part2_id) = st.numeric_value_to_save
         /\ st.remaining_value = 0

C2_Witness ==
  \E c \in Workers :
    /\ calls[c].pc = "done" /\ calls[c].splits_created = 1
    /\ calls[c].original_numeric - calls[c].split_budget > 1
    /\ calls[c].numeric_value_to_save = 5

\* C3: in one call, whatever the store answers, at most one eligible item has
\* its deduction column rewritten and at most one duplicate is created.
C3_AtMostOneSplit ==
  \A c \in Workers :
    LET st == calls[c]
        elig == {st.eligible_subitems[k].id : k \in 1..Len(st.eligible_subitems)}
    IN /\ Cardinality({k \in 1..Len(st.log) :
                         st.log[k].op = "set_ded" /\ st.log[k].item \in elig}) <= 1
       /\ Cardinality({k \in 1..Len(st.log) : st.log[k].op = "duplicate"}) <= 1
       /\ st.splits_created <= 1
       /\ Cardinality({i \in elig : i \in ItemIds(subitems) /\
                         \E k \in 1..Len(st.eligible_subitems) :
                            /\ st.eligible_subitems[k].id = i
                            /\ st.eligible_subitems[k].ded # StoredDed(i)}) <= 1

\* a /distribuir call whose split failed while a later eligible item was waiting
C3_Witness ==
  \E c \in Workers :
    LET st == calls[c]
    IN /\ st.pc = "done" /\ st.entry = "distribuir"
       /\ SplitAttempted(st) /\ st.splits_created = 0
       /\ st.i < Len(st.eligible_subitems)
       /\ st.eligible_subitems[st.i + 1].ded > st.remaining_value

\* C4: with every write acknowledged, the items are consumed greedily in order:
\* the leading positive deductions that fit are consumed whole; when all fit or
\* the budget is met exactly there is no split and remaining = limit - sum;
\* otherwise the next item is split into R and d - R, remaining is 0 and
\* processed has (whole items) + 2 entries.  The three worked scenarios follow.
C4_GreedyResult ==
  \A c \in Workers :
    LET st == calls[c]
        ds == PosDeds(st)
        L == st.limit_value
        w == Whole(ds, L)
        R == L - Prefix(ds, w)
    IN (Distributed(st) /\ AllAcked(st)) =>
         /\ L > 0
         /\ \A k \in 1..w : st.out_processed[k].deducted_value = ds[k]
         /\ IF w = Len(ds) \/ R = 0
              THEN /\ st.out_remaining = R
                   /\ Len(st.out_processed) = w
                   /\ ~SplitAttempted(st)
              ELSE /\ st.out_remaining = 0
                   /\ Len(st.out_processed) = w + 2
                   /\ st.splits_created = 1
                   /\ StoredDed(SplitItem(st)) = R
                   /\ StoredDed(st.part2_id) = ds[w + 1] - R
         /\ (L = 100 /\ ds = <<40, 30, 50>>) =>
              /\ Len(st.out_processed) = 4
              /\ StoredDed(SplitItem(st)) = 30 /\ StoredDed(st.part2_id) = 20
              /\ st.out_remaining = 0 /\ ~Truthy(st.out_reserva_saved)
         /\ (L = 50 /\ ds = <<80>>) =>
              /\ StoredDed(SplitItem(st)) = 50 /\ StoredDed(st.part2_id) = 30
              /\ st.out_remaining = 0
         /\ (L = 20 /\ ds = <<10>>) =>
              /\ Len(st.out_processed) = 1
              /\ st.out_remaining = 10 /\ Truthy(st.out_reserva_saved)

C4_Witness ==
  \E c \in Workers :
    /\ Distributed(calls[c]) /\ AllAcked(calls[c])
    /\ calls[c].limit_value = 100 /\ Len(calls[c].out_processed) = 4

\* the writes distribute_values issued to subitems
ItemOps == {"set_saved", "set_ded", "duplicate", "rename_parte1", "rename_parte2"}

\* the writes of the entry point /atualizarreservadecambio after the allocation
ClearOps == {"clear_reserva", "clear_cotacao"}

\* the call wrote its entry to the ledger
LedgerWrittenBy(st) ==
  \E k \in DOMAIN operation_state : operation_state[k].timestamp = st.callno

\* C5: a subitem stamped by one call is not selected as eligible, nor written,
\* by a later call (no external actor edits the store in this model).
C5_NoReselection ==
  \A c \in Workers :
    LET st == calls[c]
    IN \A s \in stamped :
         s[2] < st.callno =>
           /\ \A k \in 1..Len(st.eligible_subitems) : st.eligible_subitems[k].id # s[1]
           /\ \A k \in 1..Len(st.log) :
                st.log[k].op \in ItemOps => st.log[k].item # s[1]

\* C6: no selected item has a non-zero saved amount, and a call that fetched
\* subitems whose sentinel-labelled ones all have a non-zero saved amount ends
\* with the no-eligible-items outcome and without any write to a subitem.
C6_IdempotentRerun ==
  \A c \in Workers :
    LET st == calls[c]
    IN /\ \A k \in 1..Len(st.eligible_subitems) : st.eligible_subitems[k].saved = 0
       /\ ( /\ st.fetch_done /\ st.fetched # <<>>
            /\ \A k \in 1..Len(st.fetched) :
                 st.fetched[k].status = Sentinel => st.fetched[k].saved # 0 )
          => /\ st.result = "no_eligible" /\ st.status_code = 200
             /\ \A k \in 1..Len(st.log) : st.log[k].op \notin ItemOps
             /\ st.processed_subitems = <<>>

\* the second call on a parent whose items the first call stamped
C6_Witness ==
  \E c \in Workers :
    LET st == calls[c]
    IN /\ st.result = "no_eligible" /\ st.callno = 2
       /\ \E k \in 1..Len(st.fetched) :
            /\ st.fetched[k].saved # 0
            /\ <<st.fetched[k].id, 1>> \in stamped

\* C7: /atualizarreservadecambio writes 0 to the reserve or quote column only
\* when the allocation returned an outcome with processed items and remaining 0.
C7_ClearOnlyWhenConsumed ==
  \A c \in Workers :
    LET st == calls[c]
    IN (\E k \in 1..Len(st.log) : st.log[k].op \in ClearOps /\ st.log[k].acked) =>
         /\ Distributed(st)
         /\ st.out_processed # <<>>
         /\ st.out_remaining = 0

\* C8: a call whose currency status is invalid returns an error, issues no
\* write to the store and leaves the ledger alone.
C8_InvalidCurrencyNoWrite ==
  \A c \in Workers :
    LET st == calls[c]
    IN st.result = "invalid_currency" =>
         /\ st.status_code = 400
         /\ st.log = <<>>
         /\ ~LedgerWrittenBy(st)

C10_ReserveFlag ==
  \A c \in Workers :
    LET st == calls[c]
    IN Distributed(st) =>
         /\ Truthy(st.out_reserva_saved) <=>
              (st.out_remaining > 0 /\ st.out_processed # <<>>)
         /\ \A k \in DOMAIN operation_state :
              operation_state[k].timestamp = st.callno =>
                (Truthy(operation_state[k].reserva_saved) <=>
                   (st.out_remaining > 0 /\ st.out_processed # <<>>))

\* outcomes with the flag set, and with items processed but the flag not set
C10_Witness ==
  \E c \in Workers :
    /\ Distributed(calls[c]) /\ Truthy(calls[c].out_reserva_saved)
    /\ calls[c].out_remaining > 0 /\ Len(calls[c].out_processed) = 2

\* C11: in every call of either entry point, at every position of the loop,
\* 0 <= remaining_value <= limit; the budget met by each consumed item was in
\* that range, and so is the remaining value of the returned outcome.
C11_RemainingInRange ==
  \A c \in Workers :
    LET st == calls[c]
    IN /\ 0 <= st.remaining_value /\ st.remaining_value <= st.limit_value
       /\ \A k \in 1..Len(st.budgets) :
            0 < st.budgets[k] /\ st.budgets[k] <= st.limit_value
       /\ Distributed(st) =>
            (0 <= st.out_remaining /\ st.out_remaining <= st.limit_value)

\* a reserve run in which a write failed and then an item met the whole budget
C11_Witness ==
  \E c \in Workers :
    LET st == calls[c]
    IN /\ Distributed(st) /\ st.entry = "atualizar"
       /\ \E k \in 1..Len(st.log) : ~st.log[k].acked
       /\ st.out_processed # <<>> /\ st.out_remaining = 0

\* the call classified its currency status (lines 331-367 were run)
Classified(st) == st.entry = "distribute_values"

\* the currency the two flags of the code stand for
Class(st) ==
  IF ~st.valid_currency THEN "Invalid" ELSE IF st.is_dollar THEN "Dollar" ELSE "Euro"

\* C12: an empty status is Invalid and is answered with the error; a status
\* with index 1 or 2 is Dollar, with index 0, 3 or 4 Euro, with any other
\* index Invalid.
C12_ClassificationByIndex ==
  \A c \in Workers :
    LET st == calls[c]
        cur == st.currency_dropdown
    IN Classified(st) =>
         /\ cur.kind = "empty" =>
               (Class(st) = "Invalid" /\ st.result = "invalid_currency" /\ st.status_code = 400)
         /\ cur.kind = "index" =>
               Class(st) = (CASE cur.index \in {1, 2} -> "Dollar"
                              [] cur.index \in {0, 3, 4} -> "Euro"
                              [] OTHER -> "Invalid")
         /\ cur.kind \in {"empty", "index"} =>
               (Class(st) = "Invalid" <=> st.result = "invalid_currency")

C12_Witness ==
  \E c \in Workers :
    /\ Classified(calls[c]) /\ calls[c].currency_dropdown = StatusIndex(2)
    /\ Class(calls[c]) = "Dollar"

DollarWords == {<<"D", "Ó", "L", "A", "R">>, <<"D", "O", "L", "L", "A", "R">>, <<"$">>}

EuroWords == {<<"E", "U", "R", "O">>, <<"€">>}

\* C13: a label or a plain text is Dollar when, upper-cased, it is one of
\* DÓLAR, DOLLAR, $; Euro when it is one of EURO, €; Invalid otherwise.
C13_ClassificationByLabel ==
  \A c \in Workers :
    LET st == calls[c]
        cur == st.currency_dropdown
    IN (Classified(st) /\ cur.kind \in {"label", "text"}) =>
         Class(st) = (CASE Upper(cur.text) \in DollarWords -> "Dollar"
                        [] Upper(cur.text) \in EuroWords -> "Euro"
                        [] OTHER -> "Invalid")

\* the positions of the fetched subitems that carry the sentinel label and no saved amount
SentinelUnsaved(fetched) ==
  {k \in 1..Len(fetched) : fetched[k].status = Sentinel /\ fetched[k].saved = 0}

\* the position in the eligible list of an item the call selected
EligiblePos(st, id) ==
  CHOOSE j \in 1..Len(st.eligible_subitems) : st.eligible_subitems[j].id = id

EligibleIds(st) == {st.eligible_subitems[k].id : k \in 1..Len(st.eligible_subitems)}

\* C14: the eligible list is the fetched list restricted to the items with the
\* sentinel label and saved amount 0, in the fetched order (its j-th element is
\* the j-th such item); the writes of the call visit the eligible items in that
\* order, and so do the entries of processed_subitems.
C14_StableFilter ==
  \A c \in Workers :
    LET st == calls[c]
        idx == SentinelUnsaved(st.fetched)
        onElig == SelectSeq(st.log, LAMBDA e : e.item \in EligibleIds(st))
    IN (st.fetch_done /\ st.result \notin {"no_subitems", "no_eligible"}) =>
         /\ Len(st.eligible_subitems) = Cardinality(idx)
         /\ \A k \in idx :
              st.eligible_subitems[Cardinality({m \in idx : m <= k})] = st.fetched[k]
         /\ \A k \in 1..Len(onElig) :
              /\ EligiblePos(st, onElig[k].item) <= st.i
              /\ k > 1 => EligiblePos(st, onElig[k - 1].item) <= EligiblePos(st, onElig[k].item)
         /\ \A k \in 1..Len(st.processed_subitems) :
              (k > 1 /\ st.processed_subitems[k].id \in EligibleIds(st)) =>
                 EligiblePos(st, st.processed_subitems[k - 1].id)
                    < EligiblePos(st, st.processed_subitems[k].id)

\* two eligible items consumed in the fetched order, past an item that is not eligible
C14_Witness ==
  \E c \in Workers :
    LET st == calls[c]
    IN /\ Distributed(st) /\ Len(st.out_processed) >= 2 /\ ~SplitAttempted(st)
       /\ Len(st.fetched) > Len(st.eligible_subitems)

\* the call began a split, had at least one of its steps applied, and a later
\* step was not acknowledged
SplitPartiallyApplied(st) ==
  /\ st.pc = "done" /\ st.splits_created = 0
  /\ \E k \in 1..Len(st.log) : st.log[k].op = "set_ded" /\ st.log[k].acked
  /\ \E k \in 1..Len(st.log) : ~st.log[k].acked /\ st.log[k].op # "rename_parte2"

\* C15: a call in which some but not all steps of a split were applied does
\* not return the success outcome: it returns an error.
C15_FailedSplitIsError ==
  \A c \in Workers :
    LET st == calls[c]
    IN SplitPartiallyApplied(st) => (~Distributed(st) /\ st.status_code # 200)

\* the call completed: it returned the outcome or the no-eligible-items message
Completed(st) == st.pc = "done" /\ st.result \in {"distributed", "no_eligible"}

\* C16: the ledger has an entry for the parent of every completed call,
\* the no-eligible-items no-op included, and the entry of the most recent
\* completed call holds what that call returned.
C16_LedgerOnEveryCompletedCall ==
  \A c \in Workers :
    LET st == calls[c]
    IN Completed(st) =>
         /\ st.item_id \in DOMAIN operation_state
         /\ ( \A d \in Workers : (Completed(calls[d]) /\ calls[d].item_id = st.item_id)
                                      => calls[d].callno <= st.callno )
            => /\ operation_state[st.item_id].processed_subitems = st.out_processed
               /\ operation_state[st.item_id].remaining_value = st.out_remaining
               /\ operation_state[st.item_id].reserva_saved = st.out_reserva_saved

\* the subitems a call's acknowledged writes produce from the list  items
RECURSIVE ReplayItems(_, _, _)
ReplayItems(subs, log, st) ==
  IF log = <<>> THEN subs
  ELSE LET e == Head(log)
           nm == st.eligible_subitems[st.i].name
           nxt == IF ~e.acked THEN subs
                  ELSE CASE e.op = "set_saved" -> SetSaved(subs, e.item, e.value)
                         [] e.op = "set_ded" -> SetDed(subs, e.item, e.value)
                         [] e.op = "duplicate" -> Duplicate(subs, e.item, st.part2_id)
                         [] e.op = "rename_parte2" -> SetName(subs, e.item, Append(nm, Parte2))
                         [] e.op = "rename_parte1" -> SetName(subs, e.item, Append(nm, Parte1))
                         [] OTHER -> subs
       IN ReplayItems(nxt, Tail(log), st)

\* the parent record a call's acknowledged writes produce from the record  rec
RECURSIVE ReplayParent(_, _)
ReplayParent(rec, log) ==
  IF log = <<>> THEN rec
  ELSE LET e == Head(log)
           nxt == IF ~e.acked THEN rec
                  ELSE CASE e.op \in {"set_reserva", "clear_reserva"} -> [rec EXCEPT !.reserva = e.value]
                         [] e.op \in {"set_cotacao", "clear_cotacao"} -> [rec EXCEPT !.cotacao = e.value]
                         [] OTHER -> rec
       IN ReplayParent(nxt, Tail(log))

\* exactly two calls were delivered, one per worker, for different parents
DisjointCalls ==
  /\ ncalls = 2
  /\ \A c \in Workers : calls[c].callno > 0
  /\ \A c, d \in Workers : c # d => calls[c].item_id # calls[d].item_id

InFlight(st) == st.pc \notin {"idle", "done"}

\* C17: when the two workers serve different parents, under every interleaving
\* each call reads its own parent's subitems as they were before either call,
\* its parent's subitems and reserve columns are exactly what its own
\* acknowledged writes make of them, and the ledger entry of its parent is the
\* outcome it returned: the other call has no effect on it.
C17_DisjointCallsIndependent ==
  DisjointCalls =>
    \A c \in Workers :
      LET st == calls[c]
          p == st.item_id
      IN /\ (st.fetch_done /\ st.result # "no_subitems") => st.fetched = ConcSubitems[p]
         /\ st.entry = "atualizar" /\ st.parent_item_with_reserva # 0 =>
               (st.parent_item_with_reserva = p /\ st.reserva_value = ConcParent[p].reserva)
         /\ st.parent_item_to_update \in {0, p}
         /\ subitems[p] = ReplayItems([q \in {p} |-> ConcSubitems[p]], st.log, st)[p]
         /\ parent[p] = ReplayParent(ConcParent[p], st.log)
         /\ (st.pc = "done" /\ Distributed(st)) =>
               /\ p \in DOMAIN operation_state
               /\ operation_state[p] =
                    [timestamp |-> st.callno, processed_subitems |-> st.out_processed,
                     remaining_value |-> st.out_remaining,
                     reserva_saved |-> st.out_reserva_saved]
         /\ (p \in DOMAIN operation_state) => operation_state[p].timestamp = st.callno

\* both calls are under way, each has already written to its own items
C17_Witness ==
  /\ DisjointCalls
  /\ \A c \in Workers :
       /\ InFlight(calls[c])
       /\ \E k \in 1..Len(calls[c].log) : calls[c].log[k].acked /\ calls[c].log[k].op \in ItemOps

\* the item was consumed whole by the call: stamped and entered in its processed list
ConsumedBy(st, i) ==
  /\ st.callno > 0 /\ <<i, st.callno>> \in stamped
  /\ \E k \in 1..Len(st.processed_subitems) : st.processed_subitems[k].id = i

\* C18: a call stamps and charges exactly the items it read as unstamped at
\* filter time, whatever the store holds at write time: an item consumed by
\* two calls was read with saved amount 0 by both, and each of them subtracted
\* the deduction it read from its own budget.
C18_ChargedAsFiltered ==
  \A c \in Workers :
    LET st == calls[c]
    IN /\ \A k \in 1..Len(st.processed_subitems) :
            st.processed_subitems[k].id \in EligibleIds(st) =>
              /\ st.eligible_subitems[EligiblePos(st, st.processed_subitems[k].id)].saved = 0
              /\ st.splits_created = 0 =>
                    st.processed_subitems[k].deducted_value =
                      st.eligible_subitems[EligiblePos(st, st.processed_subitems[k].id)].ded
       /\ st.splits_created = 0 =>
            st.remaining_value = st.limit_value - SumSeq(Deducted(st.processed_subitems))
               \/ st.processed_subitems = <<>>

\* one item consumed by both calls, each having charged its own budget with it
C18_Witness ==
  \E i \in ItemIds(subitems) :
    /\ \A c \in Workers : ConsumedBy(calls[c], i) /\ calls[c].numeric_value_to_save # 0
    /\ \A c, d \in Workers : c # d => calls[c].callno # calls[d].callno

\* what a handler can return: the outcome, a message or an error object
StructuredResults ==
  { "distributed", "no_subitems", "no_eligible", "invalid_currency", "exception",
    "skip_status", "skip_limit", "item_query_failed", "internal_error", "no_reserva" }

\* the positions at which a handler waits for the store
RequestPositions ==
  { "parent_query", "get_subitems", "stamp", "split1", "split2", "dup", "dup_rename",
    "split4", "split5", "split6", "reserva_query", "reserva_write", "cotacao_write",
    "clear_reserva", "clear_cotacao" }

\* C19: whatever the store answers, a handler is either waiting for the store
\* or has returned a structured result with a status: the outcome or a message
\* with 200, or an error object with 400 or 500; after an unacknowledged or
\* malformed response the call still ends that way.
C19_StructuredResult ==
  \A c \in Workers :
    LET st == calls[c]
    IN /\ st.pc \in {"idle", "done"} \cup RequestPositions
       /\ st.pc = "done" =>
            /\ st.result \in StructuredResults
            /\ st.status_code \in {200, 400, 500}
            /\ st.result \in {"invalid_currency", "exception", "item_query_failed",
                               "internal_error"} <=> st.status_code # 200

\* a call that met a response without the expected id and returned the 500 error
C19_Witness ==
  \E c \in Workers :
    /\ calls[c].pc = "done" /\ calls[c].result = "exception" /\ calls[c].status_code = 500
    /\ \E k \in 1..Len(calls[c].log) : ~calls[c].log[k].acked

\* the writes of the six split steps the call has issued, in the order issued
SplitWrites(st) ==
  LET first == {k \in 1..Len(st.log) : st.log[k].op = "set_ded"}
      from == IF first = {} THEN Len(st.log) + 1
              ELSE CHOOSE k \in first : \A j \in first : k <= j
  IN SelectSeq(SubSeq(st.log, from, Len(st.log)),
               LAMBDA e : e.op \in {"set_ded", "set_saved", "duplicate", "rename_parte1"})

\* the k-th write of the split sequence
SplitStepOp(k) ==
  CASE k = 1 -> "set_ded" [] k = 2 -> "set_saved" [] k = 3 -> "duplicate"
    [] k = 4 -> "set_ded" [] k = 5 -> "set_saved" [] OTHER -> "rename_parte1"

\* C20: the split writes of a call are a prefix of: resize original to the
\* remaining budget, stamp original, duplicate original, resize duplicate to
\* original deduction - remaining, stamp duplicate, rename original; every
\* write but the last issued was acknowledged, so none follows an
\* unacknowledged one; a reported split has all six, acknowledged.
C20_SplitStepOrder ==
  \A c \in Workers :
    LET st == calls[c]
        sp == SplitWrites(st)
        orig == st.eligible_subitems[st.i].id
    IN /\ Len(sp) <= 6
       /\ \A k \in 1..Len(sp) :
            /\ sp[k].op = SplitStepOp(k)
            /\ sp[k].item = (IF k \in {4, 5} THEN st.part2_id ELSE orig)
            /\ k = 1 => sp[k].value = st.split_budget
            /\ k \in {2, 5} => sp[k].value = st.numeric_value_to_save
            /\ k = 4 => sp[k].value = st.original_numeric - st.split_budget
            /\ k < Len(sp) => sp[k].acked
       /\ st.splits_created > 0 => (Len(sp) = 6 /\ sp[6].acked)

\* steps 1 to 3 were applied, step 4 was not acknowledged, the call has ended
C20_Witness ==
  \E c \in Workers :
    LET sp == SplitWrites(calls[c])
    IN /\ calls[c].pc = "done" /\ Len(sp) = 4 /\ ~sp[4].acked

StoredName(id) == ItemById(subitems, id).name

\* C21: when a call reports a successful split, the store holds the original
\* under its name followed by " - Parte 1" and the duplicate under that name
\* followed by " - Parte 2", the rename of the duplicate having been acknowledged.
C21_NamesAfterSplit ==
  \A c \in Workers :
    LET st == calls[c]
        nm == st.eligible_subitems[st.i].name
    IN st.splits_created = 1 =>
         /\ StoredName(SplitItem(st)) = Append(nm, Parte1)
         /\ StoredName(st.part2_id) = Append(nm, Parte2)
         /\ \A k \in 1..Len(st.log) : st.log[k].op = "rename_parte2" => st.log[k].acked

\* the call is past its loop
PastLoop(st) ==
  st.pc \in {"reserva_query", "reserva_write", "cotacao_write", "clear_reserva",
             "clear_cotacao", "done"}

\* a split was begun and one of its six writes was not acknowledged
SplitBroken(st) ==
  LET sp == SplitWrites(st) IN sp # <<>> /\ ~sp[Len(sp)].acked

\* the eligible items that come after the one the loop stopped at
LaterIds(st) ==
  {st.eligible_subitems[k].id : k \in (st.i + 1)..Len(st.eligible_subitems)}

\* the log entries that write to subitems
ItemWrites(st) == SelectSeq(st.log, LAMBDA e : e.op \in ItemOps)

\* C22: after a split step that was not acknowledged the loop has stopped: the
\* failed write is the last write to a subitem, no later eligible item was
\* written or processed, processed holds only items consumed before the split
\* and not the item being split, remaining is the budget the split was begun
\* with, and the split writes acknowledged before the failure are still in
\* effect in the store.
C22_StateAfterFailedSplit ==
  \A c \in Workers :
    LET st == calls[c]
        sp == SplitWrites(st)
        iw == ItemWrites(st)
        orig == SplitItem(st)
    IN SplitBroken(st) =>
         /\ PastLoop(st)
         /\ ~iw[Len(iw)].acked /\ iw[Len(iw)] = sp[Len(sp)]
         /\ \A k \in 1..Len(st.log) : st.log[k].item \notin LaterIds(st)
         /\ \A k \in 1..Len(st.processed_subitems) :
              /\ st.processed_subitems[k].id # orig
              /\ st.processed_subitems[k].id \notin LaterIds(st)
              /\ EligiblePos(st, st.processed_subitems[k].id) < st.i
         /\ Len(st.processed_subitems) = Len(st.budgets)
         /\ st.remaining_value = st.split_budget
         /\ st.splits_created = 0
         /\ Len(sp) > 1 => StoredDed(orig) = st.split_budget
         /\ Len(sp) > 2 => StoredSaved(orig) = st.numeric_value_to_save
         /\ Len(sp) > 3 => st.part2_id \in ItemIds(subitems)

\* an item was consumed, the next one was resized and stamped, and then the
\* duplication failed
C22_Witness ==
  \E c \in Workers :
    LET st == calls[c]
    IN /\ st.pc = "done" /\ SplitBroken(st) /\ Len(SplitWrites(st)) = 3
       /\ Len(st.processed_subitems) = 1

\* C23: after a successful split remaining is 0 and the loop has ended: no
\* eligible item after the split one was written or entered in processed, and
\* the last two entries of processed are the two parts.
C23_LoopEndsAfterSplit ==
  \A c \in Workers :
    LET st == calls[c]
        n == Len(st.processed_subitems)
    IN st.splits_created > 0 =>
         /\ PastLoop(st)
         /\ st.remaining_value = 0
         /\ \A k \in 1..Len(st.log) : st.log[k].item \notin LaterIds(st)
         /\ \A k \in 1..n : st.processed_subitems[k].id \notin LaterIds(st)
         /\ n >= 2
         /\ st.processed_subitems[n - 1].id = SplitItem(st)
         /\ st.processed_subitems[n].id = st.part2_id
         /\ \A i \in LaterIds(st) : StoredSaved(i) = 0

\* the first of two eligible items was split; the second is still waiting
C23_Witness ==
  \E c \in Workers :
    LET st == calls[c]
    IN /\ st.pc = "done" /\ st.splits_created = 1
       /\ LaterIds(st) # {}
       /\ st.numeric_value_to_save # 0

\* the positions of the eligible items that carry no deduction
ZeroDed(st) == {k \in 1..Len(st.eligible_subitems) : st.eligible_subitems[k].ded = 0}

\* C24: an eligible item with deduction 0 is never written and never entered
\* in processed, and it does not end the loop or touch the budget: the call
\* never waits on it, and once the loop is over with every write acknowledged,
\* the first item with a positive deduction after leading zero-deduction items
\* met the whole limit.
C24_ZeroDeductionSkipped ==
  \A c \in Workers :
    LET st == calls[c]
        zero == {st.eligible_subitems[k].id : k \in ZeroDed(st)}
        pos == {k \in 1..Len(st.eligible_subitems) : st.eligible_subitems[k].ded > 0}
    IN /\ \A k \in 1..Len(st.log) : st.log[k].item \notin zero
       /\ \A k \in 1..Len(st.processed_subitems) : st.processed_subitems[k].id \notin zero
       /\ \A i \in zero : i \in ItemIds(subitems) => StoredSaved(i) = 0 \/ st.numeric_value_to_save = 0
       /\ st.pc \in {"stamp", "split1"} => st.i \notin ZeroDed(st)
       /\ (PastLoop(st) /\ st.fetch_done /\ st.eligible_subitems # <<>> /\ pos # {}
             /\ st.result # "exception") =>
            /\ st.log # <<>>
            /\ st.log[1].item = st.eligible_subitems[CHOOSE k \in pos : \A j \in pos : k <= j].id
            /\ st.log[1].op = "set_saved" => (st.log[1].acked => st.budgets[1] = st.limit_value)

\* an item without deduction was passed over and the next one was consumed
C24_Witness ==
  \E c \in Workers :
    LET st == calls[c]
    IN /\ Distributed(st) /\ 1 \in ZeroDed(st)
       /\ Len(st.out_processed) = 1 /\ st.out_processed[1].id = st.eligible_subitems[2].id
       /\ st.out_remaining = st.limit_value - st.eligible_subitems[2].ded

\* the loop stands at an item that exceeds the budget left while no split is allowed
SplitRefused(st) ==
  /\ st.fetch_done /\ st.i \in 1..Len(st.eligible_subitems)
  /\ st.remaining_value > 0
  /\ st.eligible_subitems[st.i].ded > st.remaining_value
  /\ st.max_splits # NoLimit /\ st.splits_created >= st.max_splits

\* C25: when an item's deduction exceeds the remaining budget and max_splits
\* is reached, the loop is over: the call issues no write for that item or for
\* any later one, none of them is in processed, and the item is stored as it was.
C25_SplitLimitStopsLoop ==
  \A c \in Workers :
    LET st == calls[c]
        rest == {SplitItem(st)} \cup LaterIds(st)
    IN SplitRefused(st) =>
         /\ PastLoop(st)
         /\ \A k \in 1..Len(st.log) : st.log[k].item \notin rest
         /\ \A k \in 1..Len(st.processed_subitems) : st.processed_subitems[k].id \notin rest
         /\ st.part2_id = 0
         /\ \A i \in rest : <<i, st.callno>> \notin stamped
         /\ StoredDed(SplitItem(st)) = st.eligible_subitems[st.i].ded \/ st.callno < ncalls

\* with max_splits = 0 the first item was consumed, the second refused, and the
\* remainder went to the reserve
C25_Witness ==
  \E c \in Workers :
    LET st == calls[c]
    IN /\ SplitRefused(st) /\ Distributed(st) /\ st.max_splits = 0
       /\ Len(st.out_processed) = 1 /\ st.i = 2
       /\ st.out_remaining > 0 /\ Len(st.log) = 3

\* the stamp writes of the non-split path that were not acknowledged: a stamp
\* of the split sequence follows the resize of the item
FailedStamps(st) ==
  {k \in 1..Len(st.log) : /\ st.log[k].op = "set_saved" /\ ~st.log[k].acked
                          /\ \A j \in 1..(k - 1) : st.log[j].op # "set_ded"}

\* C26: when the stamp write of an item that fits the budget is not
\* acknowledged, the item is not entered in processed, the budget is not
\* reduced by its deduction, and the loop has moved past the item: the call
\* is not aborted.
C26_StampFailureSkipsItem ==
  \A c \in Workers :
    LET st == calls[c]
    IN \A k \in FailedStamps(st) :
         LET id == st.log[k].item
         IN /\ \A j \in 1..Len(st.processed_subitems) : st.processed_subitems[j].id # id
            /\ st.remaining_value + SumSeq(Deducted(st.processed_subitems)) = st.limit_value
                 \/ st.splits_created > 0
            /\ EligiblePos(st, id) < st.i
            /\ st.result # "exception"

\* the positions of a call at which a write to a line item is due
ItemWritePositions == {"stamp", "split1", "split2", "dup", "dup_rename", "split4", "split5", "split6"}

\* the eligible positions of the items the call has entered in processed
ProcessedPos(st) ==
  {j \in 1..Len(st.eligible_subitems) :
     \E k \in 1..Len(st.processed_subitems) :
       st.processed_subitems[k].id = st.eligible_subitems[j].id}

\* C27: a write to a line item is due only while remaining_value > 0, and
\* every stamp and every split started from a positive budget; once
\* remaining_value is 0 the loop is over and the call has written to no
\* eligible item after the one that used the budget up.
C27_ConsumeWhileBudget ==
  \A c \in Workers :
    LET st == calls[c]
    IN st.fetch_done =>
         /\ st.pc \in ItemWritePositions => st.remaining_value > 0
         /\ \A k \in 1..Len(st.budgets) : st.budgets[k] > 0
         /\ SplitAttempted(st) => st.split_budget > 0
         /\ (st.remaining_value = 0 /\ st.eligible_subitems # <<>>) =>
              /\ PastLoop(st)
              /\ ProcessedPos(st) # {}
              /\ \A k \in 1..Len(st.log) :
                    st.log[k].item \in EligibleIds(st) =>
                      \E j \in ProcessedPos(st) : EligiblePos(st, st.log[k].item) <= j

\* the first item met the limit exactly and the second was left alone
C27_Witness ==
  \E c \in Workers :
    LET st == calls[c]
    IN /\ Distributed(st) /\ st.out_remaining = 0 /\ st.splits_created = 0
       /\ Len(st.out_processed) = 1 /\ Len(st.eligible_subitems) = 2
       /\ st.eligible_subitems[2].ded > 0
       /\ StoredSaved(st.eligible_subitems[2].id) = 0 /\ st.numeric_value_to_save # 0

\* the writes of the reserve writer, and the positions of a call inside it
ReservaOps == {"set_reserva", "set_cotacao"}

InReservaWriter(st) == st.pc \in {"reserva_query", "reserva_write", "cotacao_write"}

ReservaWrites(st) == SelectSeq(st.log, LAMBDA e : e.op \in ReservaOps)

\* C28: the reserve writer of distribute_values runs only after a loop that
\* ended with remaining_value > 0 and a non-empty processed list: in every
\* other call it has issued no write to the parent's reserve or quote column.
C28_ReservaWriterGuard ==
  \A c \in Workers :
    LET st == calls[c]
    IN /\ (InReservaWriter(st) \/ ReservaWrites(st) # <<>>) =>
            /\ st.fetch_done
            /\ st.remaining_value > 0
            /\ st.processed_subitems # <<>>
       /\ st.parent_item_to_update # 0 => st.remaining_value > 0 /\ st.processed_subitems # <<>>

\* a call whose only stamp was not acknowledged: budget left, nothing
\* processed, and the parent's reserve and quote columns as they were
C28_Witness ==
  \E c \in Workers :
    LET st == calls[c]
    IN /\ Distributed(st) /\ st.entry = "distribuir"
       /\ st.out_processed = <<>> /\ st.out_remaining > 0
       /\ st.log # <<>> /\ ReservaWrites(st) = <<>>
       /\ parent[st.item_id].reserva = 0 /\ parent[st.item_id].cotacao = 0

\* the call's loop ended with budget left and at least one processed item
ReservaTriggered(st) ==
  /\ st.fetch_done /\ PastLoop(st)
  /\ st.remaining_value > 0 /\ st.processed_subitems # <<>>

\* C29: when the reserve writer is triggered and the lookup finds a record
\* named as the parent, the writes it issues are, in this order, the
\* remainder to that record's reserve column and the call's value to save to
\* its quote column, and an acknowledged write is in the store as long as the
\* entry point has not cleared the reserve; when the lookup finds no record, no reserve or quote write is issued and a call
\* that returns its outcome reports success with the items consumed.
C29_ReservaWriteBack ==
  \A c \in Workers :
    LET st == calls[c]
        w == ReservaWrites(st)
        target == st.parent_item_to_update
        kept == \A k \in 1..Len(st.log) : st.log[k].op \notin ClearOps
    IN ReservaTriggered(st) =>
         /\ target # 0 =>
              /\ target = FindParentByName(parent, st.item_name)
              /\ parent[target].name = st.item_name
              /\ Len(w) <= 2
              /\ st.pc = "reserva_write" <=> Len(w) = 0
              /\ st.pc = "cotacao_write" <=> Len(w) = 1
              /\ ~kept => st.result = "exception"
              /\ Len(w) >= 1 =>
                   /\ w[1] = [op |-> "set_reserva", item |-> target,
                              value |-> st.remaining_value, acked |-> w[1].acked]
                   /\ (w[1].acked /\ kept) => parent[target].reserva = st.remaining_value
              /\ Len(w) = 2 =>
                   /\ w[2] = [op |-> "set_cotacao", item |-> target,
                              value |-> st.numeric_value_to_save, acked |-> w[2].acked]
                   /\ (w[2].acked /\ kept) => parent[target].cotacao = st.numeric_value_to_save
         /\ (target = 0 /\ st.pc = "done") =>
              /\ w = <<>>
              /\ st.result \in {"distributed", "exception"}
              /\ Distributed(st) =>
                   /\ st.status_code = 200
                   /\ st.out_processed = st.processed_subitems
                   /\ st.out_remaining = st.remaining_value

\* the remainder and the value to save were written to the parent and acknowledged
C29_Witness ==
  \E c \in Workers :
    LET st == calls[c]
        w == ReservaWrites(st)
    IN /\ Distributed(st) /\ ReservaTriggered(st)
       /\ Len(w) = 2 /\ w[1].acked /\ w[2].acked
       /\ st.out_remaining < st.limit_value
       /\ parent[st.parent_item_to_update].reserva = st.out_remaining
       /\ parent[st.parent_item_to_update].cotacao = 5

\* C30: after a successful split with budget R left before it and original
\* deduction D, the last two entries of processed are Part 1 with
\* deducted_value R and Part 2 with deducted_value D - R, both with
\* assigned_value equal to the value to save, so the deducted_value of all
\* entries but Part 2 adds up to the limit minus the returned remaining_value.
C30_SplitOutcomeEntries ==
  \A c \in Workers :
    LET st == calls[c]
        n == Len(st.processed_subitems)
    IN st.splits_created > 0 =>
         /\ n >= 2
         /\ st.processed_subitems[n - 1].id = SplitItem(st)
         /\ st.processed_subitems[n - 1].deducted_value = st.split_budget
         /\ st.processed_subitems[n].id = st.part2_id
         /\ st.processed_subitems[n].deducted_value = st.original_numeric - st.split_budget
         /\ st.processed_subitems[n - 1].assigned_value = st.numeric_value_to_save
         /\ st.processed_subitems[n].assigned_value = st.numeric_value_to_save
         /\ SumSeq(Deducted(SubSeq(st.processed_subitems, 1, n - 1)))
              = st.limit_value - st.remaining_value

\* C31: every raw currency status is classified as exactly one of Dollar,
\* Euro and Invalid: a call on a Dollar or Euro status goes on to fetch the
\* subitems, and a call on an Invalid one ends with the invalid-currency
\* error, status 400, and with no other failure.
C31_ClassificationTotal ==
  \A c \in Workers :
    LET st == calls[c]
    IN Classified(st) =>
         /\ Class(st) \in {"Dollar", "Euro"} => st.pc = "get_subitems"
         /\ Class(st) = "Invalid" =>
              /\ st.pc = "done"
              /\ st.result = "invalid_currency"
              /\ st.status_code = 400

\* the worker whose handler took the step
Stepped(c) == calls'[c] # calls[c]

\* C32: no step removes a key from operation_state; a step that changes or
\* adds the entry of key k is the step of a call of distribute_values for
\* parent k, so the entries of every other parent stay as they were; a step
\* of the status view leaves the ledger as it is.
C32_LedgerKeptAndOwnKeyOnly ==
  [][ /\ DOMAIN operation_state \subseteq DOMAIN operation_state'
      /\ \A k \in DOMAIN operation_state' :
            (k \notin DOMAIN operation_state \/ operation_state'[k] # operation_state[k]) =>
              \E c \in Workers :
                /\ Stepped(c)
                /\ calls'[c].item_id = k
                /\ calls'[c].entry \in {"distribuir", "atualizar"}
                /\ operation_state'[k].timestamp = calls'[c].callno
      /\ (\E c \in Workers : Stepped(c) /\ calls'[c].entry = "status") =>
            operation_state' = operation_state ]_vars

\* the second call wrote the entry of parent 2 and the entry of parent 1 is
\* the one the first call wrote
C32_Witness ==
  /\ DOMAIN operation_state = {1, 2}
  /\ operation_state[1].timestamp = 1
  /\ operation_state[2].timestamp = 2
  /\ operation_state[1].processed_subitems # <<>>

\* the positions of the split sequence, in order
SplitPositions == <<"split1", "split2", "dup", "dup_rename", "split4", "split5", "split6">>

SplitPos(pc) == CHOOSE k \in 1..Len(SplitPositions) : SplitPositions[k] = pc

InSplit(st) == \E k \in 1..Len(SplitPositions) : SplitPositions[k] = st.pc

\* the same call of worker c before and after the step
SameCall(c) == calls'[c].callno = calls[c].callno /\ calls[c].fetch_done

\* C33: every call in flight eventually returns; within a call the loop
\* index never goes back, a step at the stamp position leaves the item, and
\* no item is stamped twice on the non-split path; a step inside the split
\* sequence leads to the next step of the sequence or out of the loop, and
\* out of the loop only after the sixth step or an unacknowledged write.
C33_Termination ==
  /\ (\E c \in Workers : InFlight(calls[c])) ~> (\A c \in Workers : ~InFlight(calls[c]))
  /\ [][ \A c \in Workers :
           (SameCall(c) /\ Stepped(c)) =>
             /\ calls'[c].i >= calls[c].i
             /\ calls[c].pc = "stamp" =>
                  (calls'[c].i > calls[c].i \/ PastLoop(calls'[c]))
             /\ InSplit(calls[c]) =>
                  \/ /\ InSplit(calls'[c])
                     /\ SplitPos(calls'[c].pc) = SplitPos(calls[c].pc) + 1
                  \/ /\ PastLoop(calls'[c])
                     /\ \/ calls[c].pc = "split6" /\ calls'[c].splits_created = 1
                        \/ SplitBroken(calls'[c]) ]_vars
  /\ [](\A c \in Workers :
          LET lg == calls[c].log
          IN \A j, k \in 1..Len(lg) :
               (j < k /\ lg[j].op = "set_saved" /\ lg[k].op = "set_saved"
                  /\ lg[j].item = lg[k].item) =>
                 \E m \in 1..(k - 1) : lg[m].op = "set_ded")

\* a call that stamped two items, split the third in six steps and returned
C33_Witness ==
  \E c \in Workers :
    LET st == calls[c]
    IN /\ st.pc = "done" /\ Distributed(st)
       /\ Len(st.eligible_subitems) = 3 /\ st.i = 3
       /\ st.splits_created = 1 /\ Len(SplitWrites(st)) = 6
       /\ Len(st.out_processed) = 4

\* the deductions now stored on the eligible items the call stamped
BookedOn(st) ==
  [k \in 1..Len(st.eligible_subitems) |->
     LET id == st.eligible_subitems[k].id
     IN IF <<id, st.callno>> \in stamped THEN StoredDed(id) ELSE 0]

\* the reserve the call wrote to the parent and the store acknowledged
ReservaBooked(st) ==
  LET w == SelectSeq(st.log, LAMBDA e : e.op = "set_reserva" /\ e.acked)
  IN IF w = <<>> THEN 0 ELSE w[Len(w)].value

\* C34: after a call, the deductions stored on the eligible items it stamped
\* (the duplicate of a split left aside) plus the reserve it wrote to the
\* parent do not exceed the call's limit value.
C34_NoDoubleBooking ==
  \A c \in Workers :
    LET st == calls[c]
    IN (st.pc = "done" /\ st.fetch_done) =>
         SumSeq(BookedOn(st)) + ReservaBooked(st) <= st.limit_value

\* a reserve run that returned the full outcome with every write acknowledged
ReserveRunDone(st) ==
  /\ st.entry = "atualizar" /\ st.pc = "done"
  /\ Distributed(st) /\ AllAcked(st)

\* what C35 says of a finished reserve run
ReserveTracked(st) ==
  /\ st.limit_value = st.reserva_value
  /\ st.out_remaining <= st.reserva_value
  /\ parent[st.parent_item_with_reserva].reserva = st.out_remaining
  /\ SumSeq(BookedOn(st)) = st.reserva_value - st.out_remaining

AckedClears(st) == {st.log[k].op : k \in {j \in 1..Len(st.log) : st.log[j].op \in ClearOps /\ st.log[j].acked}}

\* C36: the result of a reserve run reports original_reserva_cleared as true
\* only if the call wrote 0 to the parent's reserve and quote columns and
\* both writes were acknowledged.
C36_ClearFlagMatchesStore ==
  \A c \in Workers :
    LET st == calls[c]
    IN (st.pc = "done" /\ st.reserva_cleared_flag) => AckedClears(st) = ClearOps

\* the ids of the fetched subitems, and the fetched record of one
FetchedIds(st) == {st.fetched[k].id : k \in 1..Len(st.fetched)}

FetchedRecord(st, id) == st.fetched[CHOOSE k \in 1..Len(st.fetched) : st.fetched[k].id = id]

\* C37: every write of a call to a line item goes to a subitem that was
\* fetched with the sentinel label and saved amount 0, or to the duplicate the
\* call created; every other write goes to a parent's reserve or quote column;
\* a fetched subitem that is not eligible is stored as it was fetched, and
\* after a fetch the store holds no subitem besides the fetched ones and the
\* duplicate.
C37_WritesConfined ==
  \A c \in Workers :
    LET st == calls[c]
    IN st.fetch_done =>
         /\ \A k \in 1..Len(st.log) :
              LET e == st.log[k]
              IN IF e.op \in ItemOps
                   THEN \/ /\ e.item \in FetchedIds(st)
                           /\ FetchedRecord(st, e.item).status = Sentinel
                           /\ FetchedRecord(st, e.item).saved = 0
                        \/ st.part2_id # 0 /\ e.item = st.part2_id
                   ELSE e.op \in ReservaOps \cup ClearOps /\ e.item \in DOMAIN parent
         /\ \A k \in 1..Len(st.fetched) :
              (st.fetched[k].status # Sentinel \/ st.fetched[k].saved # 0) =>
                 /\ st.fetched[k].id \in ItemIds(subitems)
                 /\ ItemById(subitems, st.fetched[k].id) = st.fetched[k]
         /\ st.fetched # <<>> => ItemIds(subitems) \subseteq FetchedIds(st) \cup {st.part2_id}

\* a call that stamped one item and split another, next to a child with a
\* wrong label and a child already saved
C37_Witness ==
  \E c \in Workers :
    LET st == calls[c]
    IN /\ Distributed(st) /\ st.splits_created = 1 /\ Len(st.out_processed) = 3
       /\ \E k \in 1..Len(st.fetched) : st.fetched[k].status = OtherLabel
       /\ \E k \in 1..Len(st.fetched) : st.fetched[k].saved # 0
       /\ Len(AllSubitems(subitems)) = Len(st.fetched) + 1

\* C38: the processed entries of eligible items stand in the order of the
\* eligible sequence, no id occurs twice, and every id is an eligible item's
\* or the duplicate's; after a successful split the last two entries are
\* Part 1 (the split item) and Part 2 (the duplicate), in that order, and
\* without a split every entry is an eligible item's; the outcome carries
\* this list.
C38_ProcessedShape ==
  \A c \in Workers :
    LET st == calls[c]
        pr == st.processed_subitems
        n == Len(pr)
    IN st.fetch_done =>
         /\ \A j, k \in 1..n : j < k =>
              /\ pr[j].id # pr[k].id
              /\ (pr[j].id \in EligibleIds(st) /\ pr[k].id \in EligibleIds(st)) =>
                    EligiblePos(st, pr[j].id) < EligiblePos(st, pr[k].id)
         /\ st.splits_created = 0 => \A k \in 1..n : pr[k].id \in EligibleIds(st)
         /\ st.splits_created > 0 =>
              /\ n >= 2
              /\ \A k \in 1..(n - 1) : pr[k].id \in EligibleIds(st)
              /\ pr[n - 1].id = SplitItem(st)
              /\ pr[n - 1].name = Append(st.eligible_subitems[st.i].name, Parte1)
              /\ pr[n].id = st.part2_id /\ st.part2_id \notin EligibleIds(st)
              /\ pr[n].name = Append(st.eligible_subitems[st.i].name, Parte2)
         /\ Distributed(st) => st.out_processed = pr

\* two items consumed whole, the third split: four entries
C38_Witness ==
  \E c \in Workers :
    LET st == calls[c]
    IN /\ Distributed(st) /\ Len(st.out_processed) = 4 /\ st.splits_created = 1
       /\ st.out_processed[1].id = st.eligible_subitems[1].id
       /\ st.out_processed[2].id = st.eligible_subitems[2].id
       /\ st.out_processed[4].id = st.part2_id

\* the returns of the entry guards
GuardResults == {"skip_status", "skip_limit", "no_reserva"}

\* no parent of this name carries a reserve
NoReservaFor(item_name) ==
  \A p \in DOMAIN parent : parent[p].name = item_name => parent[p].reserva <= 0

\* C39: /distribuir on an empty currency status or a limit <= 0, and
\* /atualizarreservadecambio when no parent of the name carries a reserve > 0
\* or the one that does has an empty currency status, return a success
\* message; such a call never entered distribute_values, issued no write and
\* wrote no ledger entry, and its step left the store and the ledger as they were.
C39_EntryGuardsNoOp ==
  /\ [](\A c \in Workers :
          LET st == calls[c]
          IN st.result \in GuardResults =>
               /\ st.pc = "done" /\ st.status_code = 200
               /\ st.log = <<>> /\ ~st.fetch_done
               /\ st.limit_value = 0 /\ st.currency_dropdown = StatusEmpty
               /\ ~LedgerWrittenBy(st))
  /\ [][ \A c \in Workers :
           LET st == calls'[c]
           IN Stepped(c) =>
                /\ st.result \in GuardResults =>
                     UNCHANGED <<parent, subitems, nextId, operation_state, stamped>>
                /\ (Free(c) /\ st.entry = "distribuir" /\ faults' = faults) =>
                     /\ parent[st.item_id].currency.kind = "empty" => st.result = "skip_status"
                     /\ (parent[st.item_id].currency.kind # "empty"
                           /\ parent[st.item_id].limit <= 0) => st.result = "skip_limit"
                /\ (calls[c].pc = "parent_query" /\ faults' = faults) =>
                     /\ NoReservaFor(st.item_name) => st.result = "no_reserva"
                     /\ (~NoReservaFor(st.item_name)
                           /\ st.parent_item_with_reserva # 0
                           /\ parent[st.parent_item_with_reserva].currency.kind = "empty") =>
                          st.result = "skip_status" ]_vars

\* a reserve run that found no reserve, after a call that wrote the ledger
C39_Witness ==
  \E c \in Workers :
    LET st == calls[c]
    IN /\ st.entry = "atualizar" /\ st.result = "no_reserva" /\ st.callno = 2
       /\ DOMAIN operation_state = {1} /\ operation_state[1].timestamp = 1

====
